---- MODULE Spec2Model ----
(***************************************************************************)
(* Cuckoo Cycle miner (Genoil/cuckoo): edge trimming, cycle finding and    *)
(* solution recovery of the CPU miner src/src/cuckoo_miner.h (pthreads)    *)
(* and of the CUDA miner src/unnamed/part_000 (kernels and main).          *)
(*                                                                         *)
(* The build parameters are scaled down so that the state space is finite  *)
(* and small: SIZESHIFT = 4 (8 nonces), alive words of WORDBITS = 2 bits   *)
(* where the code has 64, twice_set words of TWICE_PER_WORD = 2 counters   *)
(* where the code has 16, and 8-bit machine words (U64BITS) where the code *)
(* has u64.  The ratio U64BITS / SIZESHIFT = 2 is that of a SIZESHIFT = 32 *)
(* build.  Every operator is written for the general parameter.            *)
(***************************************************************************)
EXTENDS Integers, Sequences, FiniteSets, TLC

(* ------------------------- build parameters --------------------------- *)
SIZESHIFT == 4
SIZE == 2 ^ SIZESHIFT
HALFSIZE == SIZE \div 2
NODEMASK == HALFSIZE - 1
\* width of one alive word / nonce block (64 in the source)
WORDBITS == 2
\* width of u64 arithmetic (64 in the source)
U64BITS == 8
PART_BITS == 1
MAXPATHLEN == 8 * (2 ^ (SIZESHIFT \div 3))
PART_MASK == (2 ^ PART_BITS) - 1
ONCE_BITS == HALFSIZE \div (2 ^ PART_BITS)
\* 2-bit counters per twice_set word (16 in the source: u/16, u%16)
TWICE_PER_WORD == 2
TWICE_WORDS == (2 * ONCE_BITS) \div (2 * TWICE_PER_WORD)
KEYBITS == U64BITS - SIZESHIFT
KEYMASK == (2 ^ KEYBITS) - 1
NONCESHIFT == SIZESHIFT - 1 - PART_BITS
NODEPARTMASK == NODEMASK \div (2 ^ PART_BITS)

(* ----------------------------- bounds --------------------------------- *)
MaxThreads == 2
MaxTrims == 2
MaxSols == 2

\* the CUDA miner is also run with one more than MaxThreads for its -t option:
\* it launches (nthreads / tpb) * tpb <= nthreads device threads
GpuMaxThreads == MaxThreads + 1
Threads == 0 .. (GpuMaxThreads - 1)
Nonces == 0 .. (HALFSIZE - 1)

(* ------------------------ C integer operators ------------------------- *)
RECURSIVE BitOr(_, _)
BitOr(a, b) ==
  IF a = 0 THEN b
  ELSE IF b = 0 THEN a
  ELSE (IF a % 2 = 1 \/ b % 2 = 1 THEN 1 ELSE 0) + 2 * BitOr(a \div 2, b \div 2)

RECURSIVE BitAnd(_, _)
BitAnd(a, b) ==
  IF a = 0 \/ b = 0 THEN 0
  ELSE (a % 2) * (b % 2) + 2 * BitAnd(a \div 2, b \div 2)

\* x << k in a w-bit unsigned type
Shl(x, k, w) == (x * (2 ^ k)) % (2 ^ w)
\* x >> k
Shr(x, k) == x \div (2 ^ k)
\* ~x in a w-bit unsigned type
BitNot(x, w) == (2 ^ w) - 1 - x

\* __builtin_ffsll: 1-based index of the lowest set bit, 0 for 0
RECURSIVE ffsll(_)
ffsll(x) == IF x = 0 THEN 0 ELSE IF x % 2 = 1 THEN 1 ELSE 1 + ffsll(x \div 2)

\* number of set bits
RECURSIVE popcount(_)
popcount(x) == IF x = 0 THEN 0 ELSE (x % 2) + popcount(x \div 2)

(* ------------------------------ state --------------------------------- *)
VARIABLES
  variant,    \* which miner runs: "cpu" (cuckoo_miner.h) or "gpu" (CUDA miner)
  IDXSHIFT,   \* build parameter IDXSHIFT (default PART_BITS + 6 in the source)
  SKIP_FINAL_LOAD, \* whether the CUDA build defines SKIP_FINAL_LOAD
  sip,        \* edge table of the key: nonce -> <<_sipnode(n,0), _sipnode(n,1)>>
  nthreads,   \* cuckoo_ctx::nthreads
  ntrims,     \* cuckoo_ctx::ntrims
  maxsols,    \* cuckoo_ctx::maxsols
  ATOMIC,     \* whether the build defines ATOMIC
  PROOFSIZE,  \* cycle length the build looks for
  bits,       \* shrinkingset::bits
  cnt,        \* shrinkingset::cnt
  nonleaf,    \* twice_set::bits
  cuckoo,     \* cuckoo_hash::cuckoo
  heap,       \* which of nonleaf / cuckoo is allocated
  sols,       \* cuckoo_ctx::sols, row-major
  nsols,      \* cuckoo_ctx::nsols
  done,       \* rows of sols whose solution() call has returned
  status,     \* "run", or how the process ended
  exitcode,   \* exit status of the process, -1 while it runs
  host,       \* position and loop variables of the CUDA miner's main()
  shadow,     \* the value of the most recent cuckoo.set(u, .) of every key u
  pass,       \* history of the current trimming pass: the alive set at its start
              \* and the nonces alive->reset was called for
  forest,     \* history: the edges <<u0, v0>> the graft of cycle finding has inserted
  tp          \* per-thread position and locals of worker() / of a kernel

vars == <<variant, IDXSHIFT, SKIP_FINAL_LOAD, sip, nthreads, ntrims, maxsols, ATOMIC,
          PROOFSIZE, bits, cnt, nonleaf, cuckoo, heap, sols, nsols, done, status,
          exitcode, host, shadow, pass, forest, tp>>
config == <<variant, IDXSHIFT, SKIP_FINAL_LOAD, sip, nthreads, ntrims, maxsols, ATOMIC,
            PROOFSIZE>>

CUCKOO_SIZE == SIZE \div (2 ^ IDXSHIFT)
CUCKOO_MASK == CUCKOO_SIZE - 1
\* a drift bound of half the size
MAXDRIFTHalf == 2 ^ (KEYBITS - IDXSHIFT - 1)
MAXDRIFT == 2 ^ (KEYBITS - IDXSHIFT)

(* --------------------------- edge function ---------------------------- *)
\* siphash24(ctx, 2*nonce + uorv) & NODEMASK, as a table of the key
_sipnode(nonce, uorv) == sip[nonce][uorv + 1]
sipnode(nonce, uorv) == BitOr(Shl(_sipnode(nonce, uorv), 1, U64BITS), uorv)

(* ---------------------------- shrinkingset ---------------------------- *)
NWORDS == HALFSIZE \div WORDBITS
AliveBlock(b, n) == BitNot(b[n \div WORDBITS], WORDBITS)
AliveTest(b, n) == BitAnd(Shr(b[n \div WORDBITS], n % WORDBITS), 1) = 0
\* reset() that stores the bit of n alone instead of or-ing it into the word
ResetWordAssign(old, n) == Shl(1, n % WORDBITS, WORDBITS)
\* the value reset() stores into bits[n/64], given the word it read
ResetWord(old, n) == BitOr(old, Shl(1, n % WORDBITS, WORDBITS))
\* a counter that stops at 0 instead of wrapping around
CntDecSaturating(c) == IF c = 0 THEN 0 ELSE c - 1
\* cnt[thread]-- on a u64
CntDec(c) == (c - 1) % (2 ^ U64BITS)
RECURSIVE SumCnt(_, _)
SumCnt(c, i) == IF i = 0 THEN 0 ELSE (SumCnt(c, i - 1) + c[i - 1]) % (2 ^ U64BITS)
AliveCount(c, nth) == SumCnt(c, nth)
AliveSet(b) == {n \in Nonces : AliveTest(b, n)}

\* the nonces the block loop visits: ffs / shift / break on ffs & 64
RECURSIVE ScanFrom(_, _)
ScanFrom(nonce, alive64) ==
  IF alive64 = 0 THEN <<>>
  ELSE LET f == ffsll(alive64)
           n == nonce + f
       IN  <<n>> \o (IF BitAnd(f, WORDBITS) # 0 THEN <<>>
                     ELSE ScanFrom(n, Shr(alive64, f)))
ScanBlock(b, block) == ScanFrom(block - 1, AliveBlock(b, block))

(* ------------------------------ twice_set ----------------------------- *)
TwiceIdx(u) == u \div TWICE_PER_WORD
TwiceBit(u) == Shl(1, 2 * (u % TWICE_PER_WORD), 2 * TWICE_PER_WORD)
\* test() that looks at the low bit of the counter: true from the first set on
TwiceTestOnce(tw, u) == BitAnd(Shr(tw[TwiceIdx(u)], 2 * (u % TWICE_PER_WORD)), 1) # 0
TwiceTest(tw, u) == BitAnd(Shr(tw[TwiceIdx(u)], 2 * (u % TWICE_PER_WORD)), 2) # 0
\* non-ATOMIC set: the word stored, given the word read
TwiceStore(old, bit) == BitOr(old, bit + BitAnd(old, bit))
TwiceZero == [w \in 0 .. (TWICE_WORDS - 1) |-> 0]

(* ----------------------------- cuckoo_hash ---------------------------- *)
CuckooZero == [ui \in 0 .. (CUCKOO_SIZE - 1) |-> 0]
\* (u64)u << SIZESHIFT | v
Niew(u, v) == BitOr(Shl(u, SIZESHIFT, U64BITS), v)
\* a probe loop that has seen every slot without returning never returns
HANG == 0 - 1
\* the assertion on MAXDRIFT in operator[] failed
DRIFT == 0 - 2

\* cuckoo_hash::set without ATOMIC: [tab, hang], the table after the call and
\* whether the probe loop never returns
RECURSIVE SetProbe(_, _, _, _, _)
SetProbe(tab, u, v, ui, seen) ==
  IF seen = CUCKOO_SIZE THEN [tab |-> tab, hang |-> TRUE]
  ELSE LET old == tab[ui]
       IN  IF old = 0 \/ Shr(old, SIZESHIFT) = BitAnd(u, KEYMASK)
           THEN [tab |-> [tab EXCEPT ![ui] = Niew(u, v)], hang |-> FALSE]
           ELSE SetProbe(tab, u, v, BitAnd(ui + 1, CUCKOO_MASK), seen + 1)
\* set() that stores into the home slot without probing
CuckooSetHome(tab, u, v) ==
  [tab |-> [tab EXCEPT ![Shr(u, IDXSHIFT)] = Niew(u, v)], hang |-> FALSE]
CuckooSet(tab, u, v) == SetProbe(tab, u, v, Shr(u, IDXSHIFT), 0)

\* cuckoo_hash::operator[]; the node stored for u, 0, HANG or DRIFT
RECURSIVE GetProbe(_, _, _, _)
GetProbe(tab, u, ui, seen) ==
  IF seen = CUCKOO_SIZE THEN HANG
  ELSE LET cu == tab[ui]
       IN  IF cu = 0 THEN 0
           ELSE IF Shr(cu, SIZESHIFT) = BitAnd(u, KEYMASK)
           THEN IF BitAnd(ui - Shr(u, IDXSHIFT) + CUCKOO_SIZE, CUCKOO_MASK) < MAXDRIFT
                THEN BitAnd(cu, SIZE - 1)
                ELSE DRIFT
           ELSE GetProbe(tab, u, BitAnd(ui + 1, CUCKOO_MASK), seen + 1)
CuckooGet(tab, u) == GetProbe(tab, u, Shr(u, IDXSHIFT), 0)

\* us[i] of a path array kept as a sequence (us[0] is its head)
At(us, i) == us[i + 1]

\* path(): follows cuckoo from u, appending to us (which holds us[0]).
\* Result: [err, us]; nu = Len(us) - 1.  err is "ok", "maxpath" (path longer
\* than MAXPATHLEN), "illegal" (the path runs into itself), "hang" or "drift".
RECURSIVE PathFrom(_, _, _)
PathFrom(tab, u, us) ==
  IF u = 0 THEN [err |-> "ok", us |-> us]
  ELSE IF u = HANG THEN [err |-> "hang", us |-> us]
  ELSE IF u = DRIFT THEN [err |-> "drift", us |-> us]
  ELSE IF Len(us) >= MAXPATHLEN
       THEN [err |-> IF \E k \in 1 .. Len(us) : us[k] = u THEN "illegal" ELSE "maxpath",
             us |-> us]
       ELSE PathFrom(tab, CuckooGet(tab, u), Append(us, u))
Path(tab, u0) == PathFrom(tab, CuckooGet(tab, u0), <<u0>>)

(* ------------------------------ worker -------------------------------- *)
Active == 0 .. (nthreads - 1)
Running == status = "run"
OnCpu == Running /\ variant = "cpu"

\* locals of a worker that is not inside any loop
Idle == [pc |-> "pass", round |-> 1, uorv |-> 0, part |-> 0, block |-> 0,
         buf |-> <<>>, i |-> 0, old |-> 0, n |-> 0, alive64 |-> 0, nonce |-> 0,
         ffs |-> 0, us |-> <<>>, vs |-> <<>>, soli |-> 0, cycle |-> {}, sblock |-> 0,
         u |-> 0, v |-> 0, ui |-> 0]

\* a loop head at which the workers other than 0 run one round fewer
LoopHeadOneLess(id, round) ==
  IF id = 0 THEN "pass" ELSE IF round < ntrims THEN "b1" ELSE "b4"
\* a loop head at which thread 0 goes to the barrier without nonleaf->reset()
LoopHeadNoReset(id, round) == IF round <= ntrims THEN "b1" ELSE "b4"
\* pc of thread id when it reaches the head of the (round, uorv, part) loops
LoopHead(id, round) ==
  IF id = 0 THEN "pass" ELSE IF round <= ntrims THEN "b1" ELSE "b4"

\* the loop variables after one more pass: part, then uorv, then round
NextLoop(l) ==
  IF l.part < PART_MASK THEN [l EXCEPT !.part = l.part + 1]
  ELSE IF l.uorv < 1 THEN [l EXCEPT !.part = 0, !.uorv = l.uorv + 1]
  ELSE [l EXCEPT !.part = 0, !.uorv = 0, !.round = l.round + 1]

\* thread 0 at the head of a pass: ctx->nonleaf->reset()
ResetNonleaf(t) ==
  /\ OnCpu /\ t = 0 /\ tp[t].pc = "pass" /\ tp[t].round <= ntrims
  /\ nonleaf' = TwiceZero
  /\ tp' = [tp EXCEPT ![t].pc = "b1"]
  /\ pass' = [alive |-> AliveSet(bits), resets |-> {}, uorv |-> tp[t].uorv,
              part |-> tp[t].part, ended |-> FALSE]
  /\ UNCHANGED <<config, forest, host, shadow, bits, cnt, cuckoo, heap, sols, nsols, done, status, exitcode>>

\* count_node_deg: buffer of one block, the nodes u >> PART_BITS of partition part
CountBuf(b, block, uorv, part) ==
  LET ns == ScanBlock(b, block)
      RECURSIVE Fill(_)
      Fill(k) == IF k > Len(ns) THEN <<>>
                 ELSE (IF BitAnd(_sipnode(ns[k], uorv), PART_MASK) = part
                       THEN <<Shr(_sipnode(ns[k], uorv), PART_BITS)>>
                       ELSE <<>>) \o Fill(k + 1)
  IN  Fill(1)

\* kill_leaf_edges: buffer of one block, nonce << NONCESHIFT | u >> PART_BITS
KillBuf(b, block, uorv, part) ==
  LET ns == ScanBlock(b, block)
      RECURSIVE Fill(_)
      Fill(k) == IF k > Len(ns) THEN <<>>
                 ELSE (IF BitAnd(_sipnode(ns[k], uorv), PART_MASK) = part
                       THEN <<BitOr(Shl(ns[k], NONCESHIFT, U64BITS),
                                    Shr(_sipnode(ns[k], uorv), PART_BITS))>>
                       ELSE <<>>) \o Fill(k + 1)
  IN  Fill(1)

\* first block of a thread: tp->id*64; the next: block += ctx->nthreads*64
FirstBlock(id) == id * WORDBITS
\* a stride of one block whatever the number of threads
NextBlockUnit(block) == block + WORDBITS
NextBlock(block) == block + nthreads * WORDBITS

\* the block loop of count_node_deg / kill_leaf_edges from `block` on: the first
\* block with a non-empty buffer, or the end of the loop (block >= HALFSIZE)
RECURSIVE Sweep(_, _, _, _, _)
Sweep(kind, b, block, uorv, part) ==
  IF block >= HALFSIZE THEN [block |-> block, buf |-> <<>>]
  ELSE LET buf == IF kind = "count" THEN CountBuf(b, block, uorv, part)
                  ELSE KillBuf(b, block, uorv, part)
       IN  IF buf # <<>> THEN [block |-> block, buf |-> buf]
           ELSE Sweep(kind, b, NextBlock(block), uorv, part)

\* locals of thread t after the sweep moved on to `block`
Swept(l, kind, b, block) ==
  LET s == Sweep(kind, b, block, l.uorv, l.part)
  IN  IF s.buf = <<>>
      THEN [l EXCEPT !.pc = IF kind = "count" THEN "b2" ELSE "b3",
                     !.block = 0, !.buf = <<>>, !.i = 0, !.old = 0, !.n = 0]
      ELSE [l EXCEPT !.pc = IF kind = "count" THEN "set" ELSE "test",
                     !.block = s.block, !.buf = s.buf, !.i = 1, !.old = 0, !.n = 0]

\* locals after buffer entry i is done
NextEntry(l, kind, b) ==
  IF l.i < Len(l.buf)
  THEN [l EXCEPT !.pc = IF kind = "count" THEN "set" ELSE "test", !.i = l.i + 1,
                 !.old = 0, !.n = 0]
  ELSE Swept(l, kind, b, NextBlock(l.block))

\* the block loop of worker() from `block` on: the first block with an alive
\* nonce, or pthread_exit after the last block
RECURSIVE FindFrom(_, _, _)
FindFrom(l, b, block) ==
  IF block >= HALFSIZE
  THEN [l EXCEPT !.pc = "exit", !.block = 0, !.alive64 = 0, !.nonce = 0, !.ffs = 0,
                 !.us = <<>>, !.vs = <<>>]
  ELSE IF AliveBlock(b, block) = 0 THEN FindFrom(l, b, NextBlock(block))
  ELSE [l EXCEPT !.pc = "iter", !.block = block, !.alive64 = AliveBlock(b, block),
                 !.nonce = block - 1, !.ffs = 0, !.us = <<>>, !.vs = <<>>]

\* pthread_barrier_wait: released once all nthreads workers wait
AtBarrier(t) == tp[t].pc \in {"b1", "b2", "b3", "b4"}
AfterBarrier(t) ==
  LET l == tp[t]
  IN  CASE l.pc = "b1" -> Swept(l, "count", bits, FirstBlock(t))
        [] l.pc = "b2" -> Swept(l, "kill", bits, FirstBlock(t))
        [] l.pc = "b3" -> LET m == NextLoop(l)
                          IN  [m EXCEPT !.pc = LoopHead(t, m.round)]
        [] OTHER       -> FindFrom(l, bits, FirstBlock(t))
Barrier ==
  /\ OnCpu
  /\ \A t \in Active : AtBarrier(t)
  /\ tp' = [t \in Threads |-> IF t \in Active THEN AfterBarrier(t) ELSE tp[t]]
  /\ UNCHANGED <<config, forest, pass, host, shadow, bits, cnt, nonleaf, cuckoo, heap, sols, nsols, done, status, exitcode>>

\* twice_set::set(buffer[i]), first access: ATOMIC fetch_or of the low bit,
\* otherwise the read of bits[idx]
Set1(t) ==
  /\ OnCpu /\ t \in Active /\ tp[t].pc = "set"
  /\ LET l == tp[t]
         u == l.buf[l.i]
         idx == TwiceIdx(u)
         bit == TwiceBit(u)
         old == nonleaf[idx]
     IN  IF ATOMIC
         THEN /\ nonleaf' = [nonleaf EXCEPT ![idx] = BitOr(old, bit)]
              /\ tp' = [tp EXCEPT ![t] = IF BitAnd(old, bit) # 0
                                         THEN [l EXCEPT !.pc = "set2"]
                                         ELSE NextEntry(l, "count", bits)]
         ELSE /\ nonleaf' = nonleaf
              /\ tp' = [tp EXCEPT ![t] = [l EXCEPT !.pc = "set2", !.old = old]]
  /\ UNCHANGED <<config, forest, pass, host, shadow, bits, cnt, cuckoo, heap, sols, nsols, done, status, exitcode>>

\* twice_set::set, second access: ATOMIC fetch_or of bit<<1, otherwise the
\* store bits[idx] = old | (bit + (old & bit))
Set2(t) ==
  /\ OnCpu /\ t \in Active /\ tp[t].pc = "set2"
  /\ LET l == tp[t]
         u == l.buf[l.i]
         idx == TwiceIdx(u)
         bit == TwiceBit(u)
     IN  /\ nonleaf' = [nonleaf EXCEPT ![idx] =
                          IF ATOMIC
                          THEN BitOr(nonleaf[idx], Shl(bit, 1, 2 * TWICE_PER_WORD))
                          ELSE TwiceStore(l.old, bit)]
         /\ tp' = [tp EXCEPT ![t] = NextEntry(l, "count", bits)]
  /\ UNCHANGED <<config, forest, pass, host, shadow, bits, cnt, cuckoo, heap, sols, nsols, done, status, exitcode>>

\* kill_leaf_edges, buffer entry i: nonleaf->test, then the read of
\* alive->bits[n/64] in reset
Test(t) ==
  /\ OnCpu /\ t \in Active /\ tp[t].pc = "test"
  /\ LET l == tp[t]
         bi == l.buf[l.i]
         n == BitOr(l.block, Shr(bi, NONCESHIFT))
     IN  tp' = [tp EXCEPT ![t] =
                  IF TwiceTest(nonleaf, BitAnd(bi, NODEPARTMASK))
                  THEN NextEntry(l, "kill", bits)
                  ELSE [l EXCEPT !.pc = "reset", !.n = n,
                                 !.old = bits[n \div WORDBITS]]]
  /\ UNCHANGED <<config, forest, pass, host, shadow, bits, cnt, nonleaf, cuckoo, heap, sols, nsols, done, status, exitcode>>

\* shrinkingset::reset: the store of bits[n/64] and cnt[thread]--
Reset(t) ==
  /\ OnCpu /\ t \in Active /\ tp[t].pc = "reset"
  /\ LET l == tp[t]
         nb == [bits EXCEPT ![l.n \div WORDBITS] = ResetWord(l.old, l.n)]
     IN  /\ bits' = nb
         /\ cnt' = [cnt EXCEPT ![t] = CntDec(cnt[t])]
         /\ tp' = [tp EXCEPT ![t] = NextEntry(l, "kill", nb)]
  /\ pass' = [pass EXCEPT !.resets = @ \cup {tp[t].n}]
  /\ UNCHANGED <<config, forest, host, shadow, nonleaf, cuckoo, heap, sols, nsols, done, status, exitcode>>

\* the heap after nonleaf is released without a cuckoo_hash being installed
ReleasedOnly == [nonleaf |-> FALSE, cuckoo |-> FALSE]
\* the heap after delete ctx->nonleaf; ctx->cuckoo = new cuckoo_hash()
Installed == [nonleaf |-> FALSE, cuckoo |-> TRUE]
\* thread 0 after the last round: the load check, then delete nonleaf and
\* new cuckoo_hash, or exit(0)
Load == (100 * AliveCount(cnt, nthreads)) \div CUCKOO_SIZE
\* a load check that lets every load pass
OverloadedNever(load) == FALSE
\* if (load >= 90)
\* a check that lets a full table through
OverloadedAbove(load) == load > 100
Overloaded(load) == load >= 90
\* an exit status that reports overload as a failure
ExitStatusFailure(how) == IF how = "done" THEN 0 ELSE 134
\* the exit status of the process: exit(0) on overload, return 0 from main()
\* and abort() after a failed assert
ExitStatus(how) ==
  CASE how = "overloaded" -> 0
    [] how = "done" -> 0
    [] OTHER -> 134
LoadCheck(t) ==
  /\ OnCpu /\ t = 0 /\ tp[t].pc = "pass" /\ tp[t].round > ntrims
  /\ IF Overloaded(Load)
     THEN /\ status' = "overloaded"
          /\ exitcode' = ExitStatus("overloaded")
          /\ UNCHANGED <<heap, cuckoo, tp>>
     ELSE /\ UNCHANGED <<status, exitcode>>
          /\ heap' = Installed
          /\ cuckoo' = CuckooZero
          /\ tp' = [tp EXCEPT ![t].pc = "b4"]
  /\ UNCHANGED <<config, forest, pass, host, shadow, bits, cnt, nonleaf, sols, nsols, done>>

(* --------------------------- cycle finding ---------------------------- *)
\* `continue`: back to the loop condition `alive64`
Continue(l, b) ==
  IF l.alive64 = 0 THEN FindFrom(l, b, NextBlock(l.block))
  ELSE [l EXCEPT !.pc = "iter", !.us = <<>>, !.vs = <<>>]

\* the end of the loop body: if (ffs & 64) break
EndOfBody(l, b) ==
  IF BitAnd(l.ffs, WORDBITS) # 0 THEN FindFrom(l, b, NextBlock(l.block))
  ELSE Continue(l, b)

\* alive64 >>= ffs; a shift by the width of the type is undefined: the
\* hardware leaves the word unchanged (count taken modulo the width) or clears it
ShiftOut(alive64, f) ==
  IF f >= WORDBITS THEN {0, alive64} ELSE {Shr(alive64, f)}

\* one iteration of the nonce loop up to the two path() calls
Iter(t) ==
  /\ OnCpu /\ t \in Active /\ tp[t].pc = "iter"
  /\ \E a2 \in ShiftOut(tp[t].alive64, ffsll(tp[t].alive64)) :
       LET f == ffsll(tp[t].alive64)
           nonce == tp[t].nonce + f
           l == [tp[t] EXCEPT !.ffs = f, !.nonce = nonce, !.alive64 = a2]
       IN  IF nonce \notin DOMAIN sip
           THEN /\ tp' = [tp EXCEPT ![t] = [l EXCEPT !.pc = "runaway"]]
                /\ UNCHANGED <<status, exitcode>>
           ELSE LET u0 == sipnode(nonce, 0)
                    v0 == sipnode(nonce, 1)
                    pu == Path(cuckoo, u0)
                    pv == Path(cuckoo, v0)
                    errs == {pu.err, pv.err}
                IN  IF u0 = 0
                    THEN /\ tp' = [tp EXCEPT ![t] = Continue(l, bits)]
                         /\ UNCHANGED <<status, exitcode>>
                    ELSE IF "drift" \in errs
                    THEN /\ status' = "abort" /\ exitcode' = ExitStatus("abort")
                         /\ tp' = [tp EXCEPT ![t] = l]
                    ELSE IF "hang" \in errs
                    THEN /\ tp' = [tp EXCEPT ![t] = [l EXCEPT !.pc = "hang"]]
                         /\ UNCHANGED <<status, exitcode>>
                    ELSE IF errs # {"ok"}
                    THEN /\ tp' = [tp EXCEPT ![t] = [l EXCEPT !.pc = "exit"]]
                         /\ UNCHANGED <<status, exitcode>>
                    ELSE /\ tp' = [tp EXCEPT ![t] =
                                     [l EXCEPT !.pc = "act", !.us = pu.us, !.vs = pv.us]]
                         /\ UNCHANGED <<status, exitcode>>
  /\ UNCHANGED <<config, forest, pass, host, shadow, bits, cnt, nonleaf, cuckoo, heap, sols, nsols, done>>

\* nu and nv left as path() returned them
AlignedNone(us, vs) == [nu |-> Len(us) - 1, nv |-> Len(vs) - 1]
\* nu and nv after the common suffix of the two paths is stripped
Aligned(us, vs) ==
  LET nu == Len(us) - 1
      nv == Len(vs) - 1
      min == IF nu < nv THEN nu ELSE nv
      k == CHOOSE k \in 0 .. min :
             /\ At(us, nu - min + k) = At(vs, nv - min + k)
             /\ \A j \in 0 .. (k - 1) : At(us, nu - min + j) # At(vs, nv - min + j)
  IN  [nu |-> nu - min + k, nv |-> nv - min + k]

\* while (nu--) cuckoo.set(us[nu+1], us[nu]), from the result r of the sets so far
RECURSIVE Reverse(_, _, _)
Reverse(r, us, nu) ==
  IF r.hang \/ nu = 0 THEN r
  ELSE Reverse(CuckooSet(r.tab, At(us, nu), At(us, nu - 1)), us, nu - 1)

\* a graft that reverses the u-path whatever the lengths
GraftU(tab, us, vs) ==
  LET r == Reverse([tab |-> tab, hang |-> FALSE], us, Len(us) - 1)
  IN  IF r.hang THEN r ELSE CuckooSet(r.tab, At(us, 0), At(vs, 0))
\* the graft of lines 394-402: [tab, hang]
Graft(tab, us, vs) ==
  LET nu == Len(us) - 1
      nv == Len(vs) - 1
      r0 == [tab |-> tab, hang |-> FALSE]
  IN  IF nu < nv
      THEN LET r == Reverse(r0, us, nu)
           IN  IF r.hang THEN r ELSE CuckooSet(r.tab, At(us, 0), At(vs, 0))
      ELSE LET r == Reverse(r0, vs, nv)
           IN  IF r.hang THEN r ELSE CuckooSet(r.tab, At(vs, 0), At(us, 0))

\* a root test that never sees the two paths meet
SameRootNever(us, vs) == FALSE
\* if (us[nu] == vs[nv]): the two paths end in the same root
SameRoot(us, vs) == At(us, Len(us) - 1) = At(vs, Len(vs) - 1)

\* the rest of the loop body: a cycle (and the call of solution), or the graft
Act(t) ==
  /\ OnCpu /\ t \in Active /\ tp[t].pc = "act"
  /\ LET l == tp[t]
         nu == Len(l.us) - 1
         nv == Len(l.vs) - 1
     IN  IF SameRoot(l.us, l.vs)
         THEN LET a == Aligned(l.us, l.vs)
                  len == a.nu + a.nv + 1
              IN  /\ tp' = [tp EXCEPT ![t] =
                              IF len = PROOFSIZE /\ nsols < maxsols
                              THEN [l EXCEPT !.pc = "sol",
                                             !.us = SubSeq(l.us, 1, a.nu + 1),
                                             !.vs = SubSeq(l.vs, 1, a.nv + 1)]
                              ELSE Continue(l, bits)]
                  /\ cuckoo' = cuckoo
                  /\ forest' = forest
         ELSE LET g == Graft(cuckoo, l.us, l.vs)
              IN  /\ cuckoo' = g.tab
                  /\ forest' = forest \cup {<<At(l.us, 0), At(l.vs, 0)>>}
                  /\ tp' = [tp EXCEPT ![t] = IF g.hang THEN [l EXCEPT !.pc = "hang"]
                                             ELSE EndOfBody(l, bits)]
  /\ UNCHANGED <<config, pass, host, shadow, bits, cnt, nonleaf, heap, sols, nsols, done, status, exitcode>>

(* ------------------------------ solution ------------------------------ *)
EvenDown(x) == x - (x % 2)
OddUp(x) == x + 1 - (x % 2)
\* the std::set<edge> built at lines 307-311; nu = Len(us) - 1, nv = Len(vs) - 1
CycleSet(us, vs) ==
  {<<At(us, 0), At(vs, 0)>>}
  \cup {<<At(us, EvenDown(k + 1)), At(us, OddUp(k))>> : k \in 0 .. (Len(us) - 2)}
  \cup {<<At(vs, OddUp(k)), At(vs, EvenDown(k + 1))>> : k \in 0 .. (Len(vs) - 2)}

\* solution(): soli = ctx->nsols++ (ATOMIC: one fetch_add; otherwise the read)
Sol(t) ==
  /\ OnCpu /\ t \in Active /\ tp[t].pc = "sol"
  /\ LET l == [tp[t] EXCEPT !.cycle = CycleSet(tp[t].us, tp[t].vs), !.soli = nsols,
                            !.n = 0, !.sblock = 0]
     IN  IF ATOMIC
         THEN /\ nsols' = nsols + 1
              /\ tp' = [tp EXCEPT ![t] = [l EXCEPT !.pc = "rescan"]]
         ELSE /\ nsols' = nsols
              /\ tp' = [tp EXCEPT ![t] = [l EXCEPT !.pc = "sol2"]]
  /\ UNCHANGED <<config, forest, pass, host, shadow, bits, cnt, nonleaf, cuckoo, heap, sols, done, status, exitcode>>

\* without ATOMIC: the store of ctx->nsols++
Sol2(t) ==
  /\ OnCpu /\ t \in Active /\ tp[t].pc = "sol2"
  /\ nsols' = tp[t].soli + 1
  /\ tp' = [tp EXCEPT ![t].pc = "rescan"]
  /\ UNCHANGED <<config, forest, pass, host, shadow, bits, cnt, nonleaf, cuckoo, heap, sols, done, status, exitcode>>

\* lines 319-332 for the nonces ns[k..] of one block, from r = [sols, n, cycle, oob]
RECURSIVE RescanFrom(_, _, _, _)
RescanFrom(r, ns, k, soli) ==
  IF k > Len(ns) \/ r.oob THEN r
  ELSE LET e == <<sipnode(ns[k], 0), sipnode(ns[k], 1)>>
           at == soli * PROOFSIZE + r.n
       IN  IF e \notin r.cycle THEN RescanFrom(r, ns, k + 1, soli)
           ELSE IF at \notin DOMAIN r.sols
           THEN [r EXCEPT !.oob = TRUE]
           ELSE RescanFrom([sols |-> [r.sols EXCEPT ![at] = ns[k]],
                            n |-> r.n + 1,
                            cycle |-> IF PROOFSIZE > 2 THEN r.cycle \ {e} ELSE r.cycle,
                            oob |-> FALSE],
                           ns, k + 1, soli)

\* solution(): one block of the rescan of the alive set; after the last block
\* assert(n == PROOFSIZE) and the return into worker()'s `continue`
Rescan(t) ==
  /\ OnCpu /\ t \in Active /\ tp[t].pc = "rescan"
  /\ LET l == tp[t]
         r == RescanFrom([sols |-> sols, n |-> l.n, cycle |-> l.cycle, oob |-> FALSE],
                         ScanBlock(bits, l.sblock), 1, l.soli)
         last == l.sblock + WORDBITS >= HALFSIZE
     IN  /\ sols' = r.sols
         /\ IF r.oob
            THEN /\ status' = "overflow" /\ exitcode' = exitcode
                 /\ tp' = [tp EXCEPT ![t] = [l EXCEPT !.n = r.n, !.cycle = r.cycle]]
                 /\ done' = done
            ELSE IF ~last
            THEN /\ tp' = [tp EXCEPT ![t] = [l EXCEPT !.n = r.n, !.cycle = r.cycle,
                                                      !.sblock = l.sblock + WORDBITS]]
                 /\ UNCHANGED <<done, status, exitcode>>
            ELSE IF r.n # PROOFSIZE
            THEN /\ status' = "abort" /\ exitcode' = ExitStatus("abort")
                 /\ tp' = [tp EXCEPT ![t] = [l EXCEPT !.n = r.n, !.cycle = r.cycle]]
                 /\ done' = done
            ELSE /\ done' = done \cup {l.soli}
                 /\ tp' = [tp EXCEPT ![t] =
                             Continue([l EXCEPT !.n = 0, !.cycle = {}, !.sblock = 0,
                                                !.soli = 0], bits)]
                 /\ UNCHANGED <<status, exitcode>>
  /\ UNCHANGED <<config, forest, pass, host, shadow, bits, cnt, nonleaf, cuckoo, heap, nsols>>

\* main() of the CPU miner: every worker is joined, the rows sols[0 .. nsols)
\* are printed and main returns 0
Join ==
  /\ OnCpu /\ \A t \in Active : tp[t].pc = "exit"
  /\ status' = "done"
  /\ exitcode' = ExitStatus("done")
  /\ UNCHANGED <<config, forest, pass, host, shadow, bits, cnt, nonleaf, cuckoo, heap, sols, nsols, done, tp>>

(* ----------------------- CUDA miner: trimming ------------------------- *)
OnGpu == Running /\ variant = "gpu"
\* width of the u32 words the trimming kernels work on (32 in the source)
WORD32 == WORDBITS \div 2

\* for (tpb = 1; tpb*tpb < nthreads; tpb *= 2) ;
RECURSIVE TpbFrom(_)
TpbFrom(tpb) == IF tpb * tpb < nthreads THEN TpbFrom(2 * tpb) ELSE tpb
Tpb == TpbFrom(1)
\* number of threads of a launch <<<n / tpb, tpb>>>
Launched(n) == (n \div Tpb) * Tpb

\* ~word of width w holding nonce `block`: bit i is set iff nonce block+i is alive
RECURSIVE BlockOf(_, _, _)
BlockOf(b, block, w) ==
  IF w = 0 THEN 0
  ELSE (IF AliveTest(b, block) THEN 1 ELSE 0) + 2 * BlockOf(b, block + 1, w - 1)

\* x >>= f on the device: shr clamps a shift amount of the width or more, the
\* result is 0
ShrClamp(x, f, w) == IF f >= w THEN 0 ELSE Shr(x, f)

\* the nonces the ffs loop of a kernel visits in a word of width w
RECURSIVE GScanFrom(_, _, _)
GScanFrom(nonce, alive, w) ==
  IF alive = 0 THEN <<>>
  ELSE LET f == ffsll(alive)
       IN  <<nonce + f>> \o GScanFrom(nonce + f, ShrClamp(alive, f, w), w)
GScan(b, block, w) == GScanFrom(block - 1, BlockOf(b, block, w), w)

\* twice_set::set with atomicOr: the word after both accesses
TwiceSetAtomic(tw, u) ==
  LET idx == TwiceIdx(u)
      bit == TwiceBit(u)
      bit2 == Shl(bit, 1, 2 * TWICE_PER_WORD)
      old == tw[idx]
  IN  [tw EXCEPT ![idx] = IF BitAnd(old, bit2 + bit) = bit
                          THEN BitOr(BitOr(old, bit), bit2)
                          ELSE BitOr(old, bit)]

\* count_node_deg of the thread with word `block`, from nonce ns[k] on
RECURSIVE CountWord(_, _, _, _, _)
CountWord(tw, ns, k, uorv, part) ==
  IF k > Len(ns) THEN tw
  ELSE LET u == _sipnode(ns[k], uorv)
       IN  CountWord(IF BitAnd(u, PART_MASK) = part
                     THEN TwiceSetAtomic(tw, Shr(u, PART_BITS)) ELSE tw,
                     ns, k + 1, uorv, part)
\* the kernel: threads id = 0 .. nthr-1, one word each; atomicOr makes the
\* result the same for every schedule of the threads
RECURSIVE CountKernel(_, _, _, _, _, _)
CountKernel(tw, b, id, nthr, uorv, part) ==
  IF id >= nthr THEN tw
  ELSE CountKernel(CountWord(tw, GScan(b, id * WORD32, WORD32), 1, uorv, part),
                   b, id + 1, nthr, uorv, part)

\* kill_leaf_edges of the thread with word `block`, from nonce ns[k] on
RECURSIVE KillWord(_, _, _, _, _, _)
KillWord(b, tw, ns, k, uorv, part) ==
  IF k > Len(ns) THEN b
  ELSE LET u == _sipnode(ns[k], uorv)
           n == ns[k]
       IN  KillWord(IF BitAnd(u, PART_MASK) = part /\ ~TwiceTest(tw, Shr(u, PART_BITS))
                    THEN [b EXCEPT ![n \div WORDBITS] = ResetWord(@, n)] ELSE b,
                    tw, ns, k + 1, uorv, part)
\* the kernel: every thread resets bits of its own word only
RECURSIVE KillKernel(_, _, _, _, _, _)
KillKernel(b, tw, id, nthr, uorv, part) ==
  IF id >= nthr THEN b
  ELSE KillKernel(KillWord(b, tw, GScan(b, id * WORD32, WORD32), 1, uorv, part),
                  tw, id + 1, nthr, uorv, part)

\* the nonces for which the threads of kill_leaf_edges call alive.reset
KillCalls(b, tw, nthr, uorv, part) ==
  {n \in AliveSet(b) : /\ n \div WORD32 < nthr
                        /\ BitAnd(_sipnode(n, uorv), PART_MASK) = part
                        /\ ~TwiceTest(tw, Shr(_sipnode(n, uorv), PART_BITS))}

\* main(): cudaMemset of nonleaf and the launch of count_node_deg
GCount ==
  /\ OnGpu /\ host.pc = "count"
  /\ nonleaf' = CountKernel(TwiceZero, bits, 0, Launched(HALFSIZE \div WORD32),
                            host.uorv, host.part)
  /\ host' = [host EXCEPT !.pc = "kill"]
  /\ pass' = [alive |-> AliveSet(bits), resets |-> {}, uorv |-> host.uorv,
              part |-> host.part, ended |-> FALSE]
  /\ UNCHANGED <<config, forest, shadow, bits, cnt, cuckoo, heap, sols, nsols, done, status,
                 exitcode, tp>>

\* the head of the loops of main() once round, uorv, part are set
TrimHead(h) == [h EXCEPT !.pc = IF h.round < ntrims THEN "count" ELSE "load"]

\* main(): the launch of kill_leaf_edges and the step of the three loops
GKill ==
  /\ OnGpu /\ host.pc = "kill"
  /\ bits' = KillKernel(bits, nonleaf, 0, Launched(HALFSIZE \div WORD32),
                        host.uorv, host.part)
  /\ host' = TrimHead(NextLoop(host))
  /\ pass' = [pass EXCEPT !.ended = TRUE,
                          !.resets = KillCalls(bits, nonleaf, Launched(HALFSIZE \div WORD32),
                                               host.uorv, host.part)]
  /\ UNCHANGED <<config, forest, shadow, cnt, nonleaf, cuckoo, heap, sols, nsols, done, status,
                 exitcode, tp>>

(* --------------------- CUDA miner: cycle finding ---------------------- *)
\* cnt += __builtin_popcountll(~bits[i]) for the first i words
RECURSIVE HostCount(_, _)
HostCount(b, i) ==
  IF i = 0 THEN 0
  ELSE (HostCount(b, i - 1) + popcount(AliveBlock(b, (i - 1) * WORDBITS))) % (2 ^ U64BITS)
GLoad == (100 * HostCount(bits, NWORDS)) \div CUCKOO_SIZE
\* the threads of the launch find_cycles<<<nthreads / tpb, tpb>>>
GThreads == 0 .. (Launched(nthreads) - 1)

\* main() after the trimming loops: the load check unless SKIP_FINAL_LOAD, then
\* cudaFree(nonleaf), the allocation of cuckoo and the launch of find_cycles
GLoadCheck ==
  /\ OnGpu /\ host.pc = "load"
  /\ IF ~SKIP_FINAL_LOAD /\ Overloaded(GLoad)
     THEN /\ status' = "overloaded"
          /\ exitcode' = ExitStatus("overloaded")
          /\ UNCHANGED <<heap, cuckoo, tp, host>>
     ELSE /\ UNCHANGED <<status, exitcode>>
          /\ heap' = Installed
          /\ cuckoo' = CuckooZero
          /\ host' = [host EXCEPT !.pc = "find"]
          /\ tp' = [t \in Threads |-> IF t \in GThreads
                                      THEN FindFrom(tp[t], bits, FirstBlock(t))
                                      ELSE tp[t]]
  /\ UNCHANGED <<config, forest, pass, shadow, bits, cnt, nonleaf, sols, nsols, done>>

\* find_cycles: one iteration of the nonce loop up to the two path() calls
GIter(t) ==
  /\ OnGpu /\ t \in GThreads /\ tp[t].pc = "iter"
  /\ LET f == ffsll(tp[t].alive64)
         nonce == tp[t].nonce + f
         l == [tp[t] EXCEPT !.ffs = f, !.nonce = nonce,
                            !.alive64 = ShrClamp(tp[t].alive64, f, WORDBITS)]
         u0 == sipnode(nonce, 0)
         v0 == sipnode(nonce, 1)
         pu == Path(cuckoo, u0)
         pv == Path(cuckoo, v0)
         errs == {pu.err, pv.err}
     IN  IF u0 = 0
         THEN /\ tp' = [tp EXCEPT ![t] = Continue(l, bits)]
              /\ UNCHANGED <<status, exitcode>>
         ELSE IF "drift" \in errs
         THEN \* device-side assert: the kernel traps, cudaFree reports the error
              /\ status' = "abort" /\ exitcode' = ExitStatus("abort")
              /\ tp' = [tp EXCEPT ![t] = l]
         ELSE IF "hang" \in errs
         THEN /\ tp' = [tp EXCEPT ![t] = [l EXCEPT !.pc = "hang"]]
              /\ UNCHANGED <<status, exitcode>>
         ELSE IF errs # {"ok"}
         THEN \* path() returned ~0 and us[nu] / vs[nv] is read out of bounds
              /\ status' = "fault" /\ exitcode' = exitcode
              /\ tp' = [tp EXCEPT ![t] = l]
         ELSE /\ tp' = [tp EXCEPT ![t] = [l EXCEPT !.pc = "act", !.us = pu.us, !.vs = pv.us]]
              /\ UNCHANGED <<status, exitcode>>
  /\ UNCHANGED <<config, forest, pass, host, shadow, bits, cnt, nonleaf, cuckoo, heap, sols, nsols, done>>

\* an entry of sols that was never written
UNSET == 0 - 1
NoEdge == <<UNSET, UNSET>>
\* the edges stored into ne[0 .. PROOFSIZE) at lines 309-313; nu = Len(us) - 1,
\* nv = Len(vs) - 1
RowEdges(us, vs) ==
  LET nu == Len(us) - 1
      nv == Len(vs) - 1
  IN  <<<<At(us, 0), At(vs, 0)>>>>
      \o [k \in 1 .. nu |-> <<At(us, EvenDown(nu - k + 1)), At(us, OddUp(nu - k))>>]
      \o [k \in 1 .. nv |-> <<At(vs, OddUp(nv - k)), At(vs, EvenDown(nv - k + 1))>>]

\* find_cycles: the rest of the loop body: a cycle (atomicInc of nsols and the
\* edges of the row if slot < MAXSOLS), or the graft
GAct(t) ==
  /\ OnGpu /\ t \in GThreads /\ tp[t].pc = "act"
  /\ LET l == tp[t]
         nu == Len(l.us) - 1
         nv == Len(l.vs) - 1
     IN  IF At(l.us, nu) = At(l.vs, nv)
         THEN LET a == Aligned(l.us, l.vs)
                  len == a.nu + a.nv + 1
                  es == RowEdges(SubSeq(l.us, 1, a.nu + 1), SubSeq(l.vs, 1, a.nv + 1))
                  slot == nsols
              IN  /\ nsols' = IF len = PROOFSIZE THEN nsols + 1 ELSE nsols
                  /\ sols' = IF len = PROOFSIZE /\ slot < maxsols
                             THEN [k \in DOMAIN sols |->
                                     IF k \div PROOFSIZE = slot
                                     THEN [sols[k] EXCEPT !.edge = es[(k % PROOFSIZE) + 1]]
                                     ELSE sols[k]]
                             ELSE sols
                  /\ tp' = [tp EXCEPT ![t] = Continue(l, bits)]
                  /\ cuckoo' = cuckoo
                  /\ forest' = forest
         ELSE LET g == Graft(cuckoo, l.us, l.vs)
              IN  /\ cuckoo' = g.tab
                  /\ forest' = forest \cup {<<At(l.us, 0), At(l.vs, 0)>>}
                  /\ tp' = [tp EXCEPT ![t] = IF g.hang THEN [l EXCEPT !.pc = "hang"]
                                             ELSE Continue(l, bits)]
                  /\ UNCHANGED <<sols, nsols>>
  /\ UNCHANGED <<config, pass, host, shadow, bits, cnt, nonleaf, heap, done, status, exitcode>>

(* ------------------- CUDA miner: find_nonces, print ------------------- *)
\* main() once find_cycles has returned: return 0 without a solution, or the
\* launch of find_nonces<<<(HALFSIZE / 64) / tpb, tpb>>>
GFound ==
  /\ OnGpu /\ host.pc = "find" /\ \A t \in GThreads : tp[t].pc = "exit"
  /\ IF nsols = 0
     THEN /\ status' = "done" /\ exitcode' = ExitStatus("done")
          /\ host' = host
     ELSE IF nsols > maxsols
     THEN \* find_nonces and the print loop index sols[i] for i >= MAXSOLS
          /\ status' = "overflow" /\ exitcode' = exitcode
          /\ host' = host
     ELSE /\ UNCHANGED <<status, exitcode>>
          /\ host' = [host EXCEPT !.pc = "nonces",
                                  !.pend = 0 .. (Launched(HALFSIZE \div WORDBITS) - 1)]
  /\ UNCHANGED <<config, forest, pass, shadow, bits, cnt, nonleaf, cuckoo, heap, sols, nsols, done, tp>>

\* find_nonces for the nonces ns[k..] of one thread: sol[j].nonce = nonce for
\* every entry whose edge is the edge of the nonce
RECURSIVE NoncesFrom(_, _, _)
NoncesFrom(so, ns, k) ==
  IF k > Len(ns) THEN so
  ELSE LET edge == <<sipnode(ns[k], 0), sipnode(ns[k], 1)>>
       IN  NoncesFrom([e \in DOMAIN so |->
                         IF e \div PROOFSIZE < nsols /\ so[e].edge = edge
                         THEN [so[e] EXCEPT !.nonce = ns[k]] ELSE so[e]],
                      ns, k + 1)

\* the find_nonces thread id; the stores of the threads into one entry are
\* ordered by the schedule
GNonces(id) ==
  /\ OnGpu /\ host.pc = "nonces" /\ id \in host.pend
  /\ sols' = NoncesFrom(sols, GScan(bits, id * WORDBITS, WORDBITS), 1)
  /\ host' = [host EXCEPT !.pend = host.pend \ {id}]
  /\ UNCHANGED <<config, forest, pass, shadow, bits, cnt, nonleaf, cuckoo, heap, nsols, done, status,
                 exitcode, tp>>

\* noncedge_cmp(a, b) < 0
NonceLess(a, b) == a.nonce < b.nonce
\* qsort(ctx.sols[i], PROOFSIZE, sizeof(noncedge_t), noncedge_cmp)
SortedRow(so, i) == SortSeq([j \in 1 .. PROOFSIZE |-> so[i * PROOFSIZE + j - 1]], NonceLess)

\* main() once find_nonces has returned: every row is sorted and printed,
\* then return 0
GPrint ==
  /\ OnGpu /\ host.pc = "nonces" /\ host.pend = {}
  /\ sols' = [e \in DOMAIN sols |->
                IF e \div PROOFSIZE < nsols
                THEN SortedRow(sols, e \div PROOFSIZE)[(e % PROOFSIZE) + 1]
                ELSE sols[e]]
  /\ done' = 0 .. (nsols - 1)
  /\ status' = "done"
  /\ exitcode' = ExitStatus("done")
  /\ host' = [host EXCEPT !.pc = "end"]
  /\ UNCHANGED <<config, forest, pass, shadow, bits, cnt, nonleaf, cuckoo, heap, nsols, tp>>

(* ------------------------- initial states ----------------------------- *)
\* nonces for which the edge table is given: [0, HALFSIZE) and the nonces past
\* the end that a block loop can reach
MaxNonce == HALFSIZE + 2 * WORDBITS - 1
\* a key, as the endpoints <<_sipnode(n,0), _sipnode(n,1)>> it gives each nonce:
\* nonces 0..3 form a 4-cycle or hold duplicates of one edge, nonce 4 repeats
\* the edge (2,2), `zero` puts nonces 0 and 7 on node 0, nonce 6 is a leaf
Key(zero, e3, e5) ==
  [n \in 0 .. MaxNonce |->
     CASE n = 0 -> IF zero THEN <<0, 1>> ELSE <<1, 1>>
       [] n = 1 -> <<1, 2>>
       [] n = 2 -> <<2, 1>>
       [] n = 3 -> e3
       [] n = 4 -> <<2, 2>>
       [] n = 5 -> e5
       [] n = 6 -> <<5, 5>>
       [] n = 7 -> IF zero THEN <<0, 2>> ELSE <<6, 6>>
       [] OTHER -> <<7, 7>>]
Keys == {Key(zero, e3, e5) : zero \in BOOLEAN, e3 \in {<<2, 2>>, <<1, 1>>},
                             e5 \in {<<1, 1>>, <<4, 4>>}}
ProofSizes == {2, 4}
\* values of the build parameter IDXSHIFT (#ifndef IDXSHIFT)
IdxShifts == {0, 1, 2}
\* no trimming pass has started
NoPass == [alive |-> Nonces, resets |-> {}, uorv |-> 0, part |-> 0, ended |-> FALSE]
\* main() of the CUDA miner has not been entered
NoHost == [pc |-> "none", round |-> 0, uorv |-> 0, part |-> 0, pend |-> {}]

InitCpu ==
  /\ variant = "cpu"
  /\ IDXSHIFT \in IdxShifts
  /\ SKIP_FINAL_LOAD = FALSE
  /\ host = NoHost
  /\ shadow = <<>>
  /\ pass = NoPass
  /\ forest = {}
  /\ sip \in Keys
  /\ nthreads \in 1 .. MaxThreads
  /\ ntrims \in 0 .. MaxTrims
  /\ maxsols \in 1 .. MaxSols
  /\ ATOMIC \in BOOLEAN
  /\ PROOFSIZE \in ProofSizes
  /\ bits = [w \in 0 .. (NWORDS - 1) |-> 0]
  /\ cnt = [t \in 0 .. (nthreads - 1) |-> IF t = 0 THEN HALFSIZE ELSE 0]
  /\ nonleaf = TwiceZero
  /\ cuckoo = CuckooZero
  /\ heap = [nonleaf |-> TRUE, cuckoo |-> FALSE]
  /\ sols = [k \in 0 .. (maxsols * PROOFSIZE - 1) |-> 0]
  /\ nsols = 0
  /\ done = {}
  /\ status = "run"
  /\ exitcode = 0 - 1
  /\ tp = [t \in Threads |->
             IF t < nthreads THEN [Idle EXCEPT !.pc = LoopHead(t, 1)]
             ELSE [Idle EXCEPT !.pc = "off"]]

\* main() of the CUDA miner up to the trimming loops: alive is all zero (every
\* nonce alive), nsols = 0, sols is not initialised
InitGpu ==
  /\ variant = "gpu"
  /\ IDXSHIFT \in IdxShifts
  /\ SKIP_FINAL_LOAD \in BOOLEAN
  /\ shadow = <<>>
  /\ pass = NoPass
  /\ forest = {}
  /\ sip \in Keys
  /\ nthreads \in 1 .. GpuMaxThreads
  /\ ntrims \in 0 .. MaxTrims
  /\ maxsols \in 1 .. MaxSols
  /\ ATOMIC = TRUE
  /\ PROOFSIZE \in ProofSizes
  /\ host = TrimHead(NoHost)
  /\ bits = [w \in 0 .. (NWORDS - 1) |-> 0]
  /\ cnt = [t \in 0 .. (nthreads - 1) |-> 0]
  /\ nonleaf = TwiceZero
  /\ cuckoo = CuckooZero
  /\ heap = [nonleaf |-> TRUE, cuckoo |-> FALSE]
  /\ sols = [k \in 0 .. (maxsols * PROOFSIZE - 1) |-> [nonce |-> UNSET, edge |-> NoEdge]]
  /\ nsols = 0
  /\ done = {}
  /\ status = "run"
  /\ exitcode = 0 - 1
  /\ tp = [t \in Threads |-> [Idle EXCEPT !.pc = "off"]]

Init == InitCpu \/ InitGpu

Next ==
  \/ Barrier
  \/ Join
  \/ GCount \/ GKill \/ GLoadCheck \/ GFound \/ GPrint
  \/ \E id \in 0 .. (NWORDS - 1) : GNonces(id)
  \/ \E t \in Threads : GIter(t) \/ GAct(t)
  \/ \E t \in Threads :
       \/ ResetNonleaf(t) \/ Set1(t) \/ Set2(t) \/ Test(t) \/ Reset(t)
       \/ LoadCheck(t) \/ Iter(t) \/ Act(t) \/ Sol(t) \/ Sol2(t) \/ Rescan(t)

Spec == Init /\ [][Next]_vars

(* ------------- the CPU miner up to the start of cycle finding --------- *)
\* one step of worker t inside the trimming loops of worker()
TrimStep(t) ==
  ResetNonleaf(t) \/ Set1(t) \/ Set2(t) \/ Test(t) \/ Reset(t) \/ LoadCheck(t)

NextTrim == Barrier \/ \E t \in Threads : TrimStep(t)

\* every pthread that can run is scheduled again, and pthread_barrier_wait
\* returns once all nthreads workers wait
FairTrim == WF_vars(Barrier) /\ \A t \in Threads : WF_vars(TrimStep(t))

\* the runs of the CPU miner; the settings that only cycle finding reads
\* (the solution store) are fixed
InitTrim == InitCpu /\ maxsols = 1 /\ PROOFSIZE = 2 /\ IDXSHIFT \in {0, 2}

SpecTrim == InitTrim /\ [][NextTrim]_vars /\ FairTrim

(* ---------------- the CPU miner with a single worker ------------------ *)
\* keys whose edges build trees deep enough for both reversals of the graft:
\* nonces 0..3 build the chains 4 -> 3 -> 2 and 10 -> 9 -> 8 (nodes as sipnode
\* numbers them), nonces 4..7 join them, extend them or close cycles
FindKey(e4, e5, e6, e7) ==
  [n \in 0 .. MaxNonce |->
     CASE n = 0 -> <<1, 1>>
       [] n = 1 -> <<2, 1>>
       [] n = 2 -> <<4, 4>>
       [] n = 3 -> <<5, 4>>
       [] n = 4 -> e4
       [] n = 5 -> e5
       [] n = 6 -> e6
       [] n = 7 -> e7
       [] OTHER -> <<7, 7>>]
FindKeys == {FindKey(e4, e5, e6, e7) :
               e4 \in {<<2, 2>>, <<2, 4>>, <<1, 4>>},
               e5 \in {<<5, 2>>, <<1, 2>>, <<5, 1>>},
               e6 \in {<<4, 2>>, <<6, 6>>, <<0, 1>>},
               e7 \in {<<4, 1>>, <<2, 2>>, <<6, 2>>}}

InitFind ==
  /\ variant = "cpu"
  /\ IDXSHIFT \in IdxShifts
  /\ SKIP_FINAL_LOAD = FALSE
  /\ host = NoHost
  /\ shadow = <<>>
  /\ pass = NoPass
  /\ forest = {}
  /\ sip \in FindKeys
  /\ nthreads = 1
  /\ ntrims \in 0 .. MaxTrims
  /\ maxsols \in 1 .. MaxSols
  /\ ATOMIC \in BOOLEAN
  /\ PROOFSIZE \in ProofSizes
  /\ bits = [w \in 0 .. (NWORDS - 1) |-> 0]
  /\ cnt = [t \in 0 .. 0 |-> HALFSIZE]
  /\ nonleaf = TwiceZero
  /\ cuckoo = CuckooZero
  /\ heap = [nonleaf |-> TRUE, cuckoo |-> FALSE]
  /\ sols = [k \in 0 .. (maxsols * PROOFSIZE - 1) |-> 0]
  /\ nsols = 0
  /\ done = {}
  /\ status = "run"
  /\ exitcode = 0 - 1
  /\ tp = [t \in Threads |->
             IF t = 0 THEN [Idle EXCEPT !.pc = LoopHead(t, 1)]
             ELSE [Idle EXCEPT !.pc = "off"]]

NextFind ==
  \/ Barrier
  \/ Join
  \/ ResetNonleaf(0) \/ Set1(0) \/ Set2(0) \/ Test(0) \/ Reset(0)
  \/ LoadCheck(0) \/ Iter(0) \/ Act(0) \/ Sol(0) \/ Sol2(0) \/ Rescan(0)

SpecFind == InitFind /\ [][NextFind]_vars

(* ------------------- cuckoo_hash driven on its own -------------------- *)
\* the keys and values of the calls: keys with the same home slot u >> IDXSHIFT
\* (2 and 3, 6 and 7, 14 and 15) and keys whose probe wraps around the table
MapKeys == {1, 2, 3, 6, 7, 8, 14, 15}
MapVals == {5, 10}
\* the keys set so far
KeysSet == {u \in MapKeys : shadow[u] # 0}

InitMap ==
  /\ variant = "map"
  /\ IDXSHIFT \in IdxShifts
  /\ SKIP_FINAL_LOAD = FALSE
  /\ sip = Key(FALSE, <<2, 2>>, <<1, 1>>)
  /\ nthreads = 1 /\ ntrims = 0 /\ maxsols = 1 /\ ATOMIC = FALSE /\ PROOFSIZE = 2
  /\ bits = [w \in 0 .. (NWORDS - 1) |-> 0]
  /\ cnt = [t \in 0 .. 0 |-> HALFSIZE]
  /\ nonleaf = TwiceZero
  /\ cuckoo = CuckooZero
  /\ heap = [nonleaf |-> FALSE, cuckoo |-> TRUE]
  /\ sols = <<>>
  /\ nsols = 0
  /\ done = {}
  /\ status = "run"
  /\ exitcode = 0 - 1
  /\ host = NoHost
  /\ shadow = [u \in MapKeys |-> 0]
  /\ pass = NoPass
  /\ forest = {}
  /\ tp = [t \in Threads |-> [Idle EXCEPT !.pc = "off"]]

\* one call cuckoo.set(u, v) of a sequential caller that keeps the number of
\* distinct keys below CUCKOO_SIZE
MapSet(u, v) ==
  /\ variant = "map"
  /\ Cardinality(KeysSet \cup {u}) < CUCKOO_SIZE
  /\ ~CuckooSet(cuckoo, u, v).hang
  /\ cuckoo' = CuckooSet(cuckoo, u, v).tab
  /\ shadow' = [shadow EXCEPT ![u] = v]
  /\ UNCHANGED <<config, forest, pass, host, bits, cnt, nonleaf, heap, sols, nsols, done, status,
                 exitcode, tp>>

NextMap == \E u \in MapKeys, v \in MapVals : MapSet(u, v)

SpecMap == InitMap /\ [][NextMap]_vars

(* ------------------- set() called by two workers --------------------- *)
\* Two workers each call set(u, v) once, with distinct keys, on a table that
\* holds at most one key.  variant names the function: "cpuset" is
\* cuckoo_hash::set of the CPU miner (with or without ATOMIC), "gpuset" the
\* __device__ set of the CUDA miner, "dset" the __device__ dset of cuda_miner.cu.
SetVariants == {"cpuset", "gpuset", "dset"}
Setters == {0, 1}
\* the slot is claimed by a compare-and-swap (otherwise by a load and a store)
UsesCas == (variant = "cpuset" /\ ATOMIC) \/ variant = "gpuset"
\* the table before the two calls: empty, or after set(p, 5)
PreTable(p) == IF p = 0 THEN CuckooZero ELSE CuckooSet(CuckooZero, p, 5).tab

InitSet ==
  /\ variant \in SetVariants
  /\ IDXSHIFT \in IdxShifts
  /\ SKIP_FINAL_LOAD = FALSE
  /\ sip = Key(FALSE, <<2, 2>>, <<1, 1>>)
  /\ nthreads = 2 /\ ntrims = 0 /\ maxsols = 1 /\ PROOFSIZE = 2
  /\ ATOMIC \in (IF variant = "cpuset" THEN BOOLEAN ELSE {FALSE})
  /\ bits = [w \in 0 .. (NWORDS - 1) |-> 0]
  /\ cnt = [t \in 0 .. 1 |-> 0]
  /\ nonleaf = TwiceZero
  /\ heap = [nonleaf |-> FALSE, cuckoo |-> TRUE]
  /\ sols = <<>>
  /\ nsols = 0
  /\ done = {}
  /\ status = "run"
  /\ exitcode = 0 - 1
  /\ host = NoHost
  /\ pass = NoPass
  /\ forest = {}
  /\ \E p \in {0, 3, 7}, u0 \in MapKeys, u1 \in MapKeys, v0 \in MapVals, v1 \in MapVals :
       /\ u0 # u1
       /\ cuckoo = PreTable(p)
       /\ shadow = [u \in MapKeys |-> IF u = p THEN 5 ELSE 0]
       /\ tp = [t \in Threads |->
                  IF t = 0 THEN [Idle EXCEPT !.pc = "probe", !.u = u0, !.v = v0,
                                             !.ui = Shr(u0, IDXSHIFT)]
                  ELSE IF t = 1 THEN [Idle EXCEPT !.pc = "probe", !.u = u1, !.v = v1,
                                                  !.ui = Shr(u1, IDXSHIFT)]
                  ELSE [Idle EXCEPT !.pc = "off"]]

\* the return of set(u, v)
Returned(l) == [l EXCEPT !.pc = "ret", !.old = 0]
\* ui = (ui+1) & CUCKOO_MASK
Advanced(l) == [l EXCEPT !.ui = BitAnd(l.ui + 1, CUCKOO_MASK), !.old = 0]

\* one pass of the probe loop of set() up to its store: the compare-and-swap
\* of slot ui, or the load of slot ui
SetLoad(t) ==
  /\ variant \in SetVariants /\ t \in Setters /\ tp[t].pc = "probe"
  /\ LET l == tp[t]
         old == cuckoo[l.ui]
         same == Shr(old, SIZESHIFT) = BitAnd(l.u, KEYMASK)
     IN  IF UsesCas
         THEN IF old = 0
              THEN /\ cuckoo' = [cuckoo EXCEPT ![l.ui] = Niew(l.u, l.v)]
                   /\ shadow' = [shadow EXCEPT ![l.u] = l.v]
                   /\ tp' = [tp EXCEPT ![t] = Returned(l)]
              ELSE /\ UNCHANGED <<cuckoo, shadow>>
                   /\ tp' = [tp EXCEPT ![t] = IF same THEN [l EXCEPT !.pc = "store", !.old = old]
                                              ELSE Advanced(l)]
         ELSE /\ UNCHANGED <<cuckoo, shadow>>
              /\ tp' = [tp EXCEPT ![t] = IF old = 0 \/ same
                                         THEN [l EXCEPT !.pc = "store", !.old = old]
                                         ELSE Advanced(l)]
  /\ UNCHANGED <<config, forest, pass, host, bits, cnt, nonleaf, heap, sols, nsols, done, status,
                 exitcode>>

\* cuckoo[ui] = niew (cuckoo[ui].store(niew) with ATOMIC) and the return
SetStore(t) ==
  /\ variant \in SetVariants /\ t \in Setters /\ tp[t].pc = "store"
  /\ cuckoo' = [cuckoo EXCEPT ![tp[t].ui] = Niew(tp[t].u, tp[t].v)]
  /\ shadow' = [shadow EXCEPT ![tp[t].u] = tp[t].v]
  /\ tp' = [tp EXCEPT ![t] = Returned(tp[t])]
  /\ UNCHANGED <<config, forest, pass, host, bits, cnt, nonleaf, heap, sols, nsols, done, status,
                 exitcode>>

NextSet == \E t \in Setters : SetLoad(t) \/ SetStore(t)

SpecSet == InitSet /\ [][NextSet]_vars

(* --------------------- cuda_miner.cu: the kernels --------------------- *)
\* The miner of cuda_miner.cu: trimming (the build with USE_BITS_FILE == 0
\* writes the alive bits to bits.bin), then the load check and find_cycles on
\* the bits read back from that file (the build with USE_BITS_FILE == 1).
OnCuda == Running /\ variant = "cuda"
\* #define TPB 128, at the scale of the model
TPB == 2
\* #define MAXFOUNDCYCLES 16, at the scale of the model
MAXFOUNDCYCLES == 2
\* d(evice s)ipnode: the hash masked with NODEMASK
dipnode(nonce, uorv) == BitAnd(sip[nonce][uorv + 1], NODEMASK)
\* the threads of a launch <<<nthreads / TPB, TPB>>>
CThreads == 0 .. ((nthreads \div TPB) * TPB - 1)
\* nonce n lies in a block of thread id: block = id*32, block += nthreads*32
Mine(id, n) == n \div WORD32 >= id /\ ((n \div WORD32) - id) % nthreads = 0
\* the alive nonces the block loops of thread id visit, in order, from nonce n on
RECURSIVE CScan(_, _, _)
CScan(b, id, n) ==
  IF n >= HALFSIZE THEN <<>>
  ELSE (IF Mine(id, n) /\ AliveTest(b, n) THEN <<n>> ELSE <<>>) \o CScan(b, id, n + 1)

\* count_node_deg for the nonces ns[k..] of one thread, from r = [tw, oob]:
\* nonleaf.set(u), oob once bits[u/16] lies outside the TWICE_WORDS words
RECURSIVE CCountFrom(_, _, _, _)
CCountFrom(r, ns, k, uorv) ==
  IF k > Len(ns) \/ r.oob THEN r
  ELSE LET u == dipnode(ns[k], uorv)
       IN  IF TwiceIdx(u) \notin DOMAIN r.tw THEN [r EXCEPT !.oob = TRUE]
           ELSE CCountFrom([r EXCEPT !.tw = TwiceSetAtomic(r.tw, u)], ns, k + 1, uorv)
\* the kernel: threads id, id+1, ...; atomicOr makes the result the same for
\* every schedule of the threads
RECURSIVE CCountKernel(_, _, _, _)
CCountKernel(r, b, id, uorv) ==
  IF id \notin CThreads THEN r
  ELSE CCountKernel(CCountFrom(r, CScan(b, id, 0), 1, uorv), b, id + 1, uorv)

\* kill_leaf_edges for the nonces ns[k..] of one thread
RECURSIVE CKillFrom(_, _, _, _, _)
CKillFrom(b, tw, ns, k, uorv) ==
  IF k > Len(ns) THEN b
  ELSE LET u == dipnode(ns[k], uorv)
           n == ns[k]
       IN  CKillFrom(IF BitAnd(u, PART_MASK) = 0 /\ ~TwiceTest(tw, Shr(u, PART_BITS))
                     THEN [b EXCEPT ![n \div WORDBITS] = ResetWord(@, n)] ELSE b,
                     tw, ns, k + 1, uorv)
\* the kernel: every reset is of a nonce of the thread's own blocks
RECURSIVE CKillKernel(_, _, _, _)
CKillKernel(b, tw, id, uorv) ==
  IF id \notin CThreads THEN b
  ELSE CKillKernel(CKillFrom(b, tw, CScan(b, id, 0), 1, uorv), tw, id + 1, uorv)

\* main(): the head of the round and uorv loops
CTrimHead(h) == [h EXCEPT !.pc = IF h.round < ntrims THEN "count" ELSE "load"]

\* main(): cudaMemset of nonleaf and the launch of count_node_deg
CCount ==
  /\ OnCuda /\ host.pc = "count"
  /\ LET r == CCountKernel([tw |-> TwiceZero, oob |-> FALSE], bits, 0, host.uorv)
     IN  IF r.oob
         THEN /\ status' = "fault" /\ UNCHANGED <<nonleaf, host>>
         ELSE /\ nonleaf' = r.tw /\ host' = [host EXCEPT !.pc = "kill"]
              /\ status' = status
  /\ UNCHANGED <<config, forest, pass, shadow, bits, cnt, cuckoo, heap, sols, nsols, done,
                 exitcode, tp>>

\* main(): the launch of kill_leaf_edges and the step of the two loops
CKill ==
  /\ OnCuda /\ host.pc = "kill"
  /\ bits' = CKillKernel(bits, nonleaf, 0, host.uorv)
  /\ host' = CTrimHead(IF host.uorv < 1 THEN [host EXCEPT !.uorv = 1]
                       ELSE [host EXCEPT !.uorv = 0, !.round = host.round + 1])
  /\ UNCHANGED <<config, forest, pass, shadow, cnt, nonleaf, cuckoo, heap, sols, nsols, done,
                 status, exitcode, tp>>

\* find_cycles: the block and nonce loops of thread id from nonce n on: the
\* next alive nonce of its blocks, or the end of the kernel
CFindFrom(l, b, id, n) ==
  LET ns == CScan(b, id, n)
  IN  IF ns = <<>>
      THEN [l EXCEPT !.pc = "exit", !.block = 0, !.nonce = 0, !.us = <<>>, !.vs = <<>>]
      ELSE [l EXCEPT !.pc = "iter", !.block = (ns[1] \div WORD32) * WORD32, !.nonce = ns[1],
                     !.us = <<>>, !.vs = <<>>]

\* main(): the load of the alive bits, the load check, the allocation of
\* cuckoo, found_cycles and cycles_found, and the launch of find_cycles
CLoadCheck ==
  /\ OnCuda /\ host.pc = "load"
  /\ IF Overloaded(GLoad)
     THEN /\ status' = "overloaded"
          /\ exitcode' = ExitStatus("overloaded")
          /\ UNCHANGED <<heap, cuckoo, tp, host>>
     ELSE /\ UNCHANGED <<status, exitcode>>
          /\ heap' = Installed
          /\ cuckoo' = CuckooZero
          /\ host' = [host EXCEPT !.pc = "find"]
          /\ tp' = [t \in Threads |-> IF t \in CThreads THEN CFindFrom(tp[t], bits, t, 0)
                                      ELSE tp[t]]
  /\ UNCHANGED <<config, forest, pass, shadow, bits, cnt, nonleaf, sols, nsols, done>>

\* find_cycles: the body of the nonce loop up to `if (err != 0) return`
CIter(t) ==
  /\ OnCuda /\ t \in CThreads /\ tp[t].pc = "iter"
  /\ LET l == tp[t]
         u0 == dipnode(l.nonce, 0)
         v0 == dipnode(l.nonce, 1)
         pu == Path(cuckoo, u0)
         pv == Path(cuckoo, v0)
         errs == {pu.err, pv.err}
     IN  IF u0 = 0
         THEN /\ tp' = [tp EXCEPT ![t] = CFindFrom(l, bits, t, l.nonce + 1)]
              /\ UNCHANGED <<status, exitcode>>
         ELSE IF "drift" \in errs
         THEN \* device-side assert: the kernel traps; main() does not test the
              \* result of the cudaMemcpy that follows and returns 0
              /\ status' = "abort" /\ exitcode' = 0
              /\ tp' = tp
         ELSE IF "hang" \in errs
         THEN /\ tp' = [tp EXCEPT ![t] = [l EXCEPT !.pc = "hang"]]
              /\ UNCHANGED <<status, exitcode>>
         ELSE IF errs # {"ok"}
         THEN /\ tp' = [tp EXCEPT ![t] = [l EXCEPT !.pc = "exit"]]
              /\ UNCHANGED <<status, exitcode>>
         ELSE /\ tp' = [tp EXCEPT ![t] = [l EXCEPT !.pc = "act", !.us = pu.us, !.vs = pv.us]]
              /\ UNCHANGED <<status, exitcode>>
  /\ UNCHANGED <<config, forest, pass, host, shadow, bits, cnt, nonleaf, cuckoo, heap, sols, nsols, done>>

\* find_cycles: the rest of the body: a cycle, recorded in found_cycles[slot]
\* with slot = atomicInc(cycles_found, MAXFOUNDCYCLES), or the graft by dset
CAct(t) ==
  /\ OnCuda /\ t \in CThreads /\ tp[t].pc = "act"
  /\ LET l == tp[t]
     IN  IF SameRoot(l.us, l.vs)
         THEN LET a == Aligned(l.us, l.vs)
                  slot == nsols
              IN  /\ nsols' = IF nsols >= MAXFOUNDCYCLES THEN 0 ELSE nsols + 1
                  /\ sols' = IF slot < MAXFOUNDCYCLES
                             THEN [sols EXCEPT ![slot] = [len |-> a.nu + a.nv + 1,
                                                          nonce |-> l.nonce]]
                             ELSE sols
                  /\ tp' = [tp EXCEPT ![t] = IF slot < MAXFOUNDCYCLES
                                             THEN CFindFrom(l, bits, t, l.nonce + 1)
                                             ELSE [l EXCEPT !.pc = "exit"]]
                  /\ UNCHANGED <<cuckoo, forest>>
         ELSE LET g == Graft(cuckoo, l.us, l.vs)
              IN  /\ cuckoo' = g.tab
                  /\ forest' = forest \cup {<<At(l.us, 0), At(l.vs, 0)>>}
                  /\ tp' = [tp EXCEPT ![t] = IF g.hang THEN [l EXCEPT !.pc = "hang"]
                                             ELSE CFindFrom(l, bits, t, l.nonce + 1)]
                  /\ UNCHANGED <<sols, nsols>>
  /\ UNCHANGED <<config, pass, host, shadow, bits, cnt, nonleaf, heap, done, status, exitcode>>

\* main() once find_cycles has returned: found_cycles is copied and printed,
\* return 0
CDone ==
  /\ OnCuda /\ host.pc = "find" /\ \A t \in CThreads : tp[t].pc = "exit"
  /\ status' = "done"
  /\ exitcode' = ExitStatus("done")
  /\ host' = [host EXCEPT !.pc = "end"]
  /\ UNCHANGED <<config, forest, pass, shadow, bits, cnt, nonleaf, cuckoo, heap, sols, nsols,
                 done, tp>>

\* the keys of the miner: those of Keys, and keys that put the V endpoint of
\* nonce 6 on node 0 (with <<3, 0>> and nonces 0 and 7 on node 0 every endpoint
\* is below ONCE_BITS)
CudaKeys == {[k EXCEPT ![6] = e6] : k \in Keys, e6 \in {<<5, 5>>, <<5, 0>>, <<3, 0>>}}

InitCuda ==
  /\ variant = "cuda"
  /\ IDXSHIFT \in IdxShifts
  /\ SKIP_FINAL_LOAD = FALSE
  /\ shadow = <<>>
  /\ pass = NoPass
  /\ forest = {}
  /\ sip \in CudaKeys
  /\ nthreads \in 1 .. GpuMaxThreads
  /\ ntrims \in 0 .. MaxTrims
  /\ maxsols = MAXFOUNDCYCLES
  /\ ATOMIC = FALSE
  /\ PROOFSIZE \in ProofSizes
  /\ host = CTrimHead(NoHost)
  /\ bits = [w \in 0 .. (NWORDS - 1) |-> 0]
  /\ cnt = [t \in 0 .. (nthreads - 1) |-> 0]
  /\ nonleaf = TwiceZero
  /\ cuckoo = CuckooZero
  /\ heap = [nonleaf |-> TRUE, cuckoo |-> FALSE]
  /\ sols = [k \in 0 .. (MAXFOUNDCYCLES - 1) |-> [len |-> 0, nonce |-> 0]]
  /\ nsols = 0
  /\ done = {}
  /\ status = "run"
  /\ exitcode = 0 - 1
  /\ tp = [t \in Threads |-> [Idle EXCEPT !.pc = "off"]]

NextCuda ==
  \/ CCount \/ CKill \/ CLoadCheck \/ CDone
  \/ \E t \in Threads : CIter(t) \/ CAct(t)

SpecCuda == InitCuda /\ [][NextCuda]_vars

(* ------------------------- reported solutions ------------------------- *)
\* the process returned from main()
Finished == status = "done"
\* row i of ctx->sols
SolNonce(e) == IF variant = "gpu" THEN sols[e].nonce ELSE sols[e]
Row(i) == [j \in 0 .. (PROOFSIZE - 1) |-> SolNonce(i * PROOFSIZE + j)]
\* the rows the caller reads once the workers are joined: sols[0 .. nsols)
Reported == IF Finished THEN 0 .. (nsols - 1) ELSE {}

U(n) == sipnode(n, 0)
V(n) == sipnode(n, 1)
\* number of nonces of the set S with endpoint x
Degree(S, x) == Cardinality({n \in S : U(n) = x \/ V(n) = x})
\* the nonces of S joined to n by a chain of shared endpoints
RECURSIVE Component(_, _)
Component(S, C) ==
  LET D == C \cup {m \in S : \E n \in C : U(n) = U(m) \/ V(n) = V(m)}
  IN  IF D = C THEN C ELSE Component(S, D)
\* the edges of the nonces S form one simple cycle of length Cardinality(S)
SimpleCycle(S) ==
  /\ S # {}
  /\ \A n \in S : Degree(S, U(n)) = 2 /\ Degree(S, V(n)) = 2
  /\ Component(S, {CHOOSE n \in S : TRUE}) = S
RowSet(i) == {Row(i)[j] : j \in 0 .. (PROOFSIZE - 1)}

\* C1: every solution the CPU miner reports at the end of a run consists of
\* PROOFSIZE pairwise distinct alive nonces whose edges form one simple cycle of
\* length PROOFSIZE
C1_SolutionValid ==
  variant = "cpu" => \A i \in Reported :
    /\ i < maxsols
    /\ Cardinality(RowSet(i)) = PROOFSIZE
    /\ \A n \in RowSet(i) : n \in Nonces /\ AliveTest(bits, n)
    /\ SimpleCycle(RowSet(i))

\* C2: every reported row holds exactly PROOFSIZE recorded nonces (no entry
\* unset, none recorded twice) in strictly ascending order
C2_RowAscending ==
  \A i \in Reported :
    /\ i < maxsols
    /\ \A j \in 0 .. (PROOFSIZE - 1) : Row(i)[j] \in Nonces
    /\ \A j \in 1 .. (PROOFSIZE - 1) : Row(i)[j - 1] < Row(i)[j]

(* ------------- the run of a single worker, as a function -------------- *)
\* one pass of count_node_deg and kill_leaf_edges over the alive nonces A
TrimPassRef(A, uorv, part) ==
  {n \in A : BitAnd(_sipnode(n, uorv), PART_MASK) = part =>
               Cardinality({m \in A : _sipnode(m, uorv) = _sipnode(n, uorv)}) >= 2}
\* the passes from loop position l = [round, uorv, part] on
RECURSIVE TrimRef(_, _)
TrimRef(A, l) ==
  IF l.round > ntrims THEN A
  ELSE TrimRef(TrimPassRef(A, l.uorv, l.part), NextLoop(l))
\* the alive nonces in the order a single worker visits them
RECURSIVE AllAlive(_, _)
AllAlive(b, block) ==
  IF block >= HALFSIZE THEN <<>>
  ELSE ScanBlock(b, block) \o AllAlive(b, block + WORDBITS)
\* the nonce loop of worker() for nthreads = 1 from nonce ns[k] on;
\* r = [tab, sols, nsols, end], end is "run", "exit" (pthread_exit) or "stuck"
\* (failed assert, store past the end of sols, or a probe loop without end)
RECURSIVE RefFind(_, _, _, _)
RefFind(r, b, ns, k) ==
  IF k > Len(ns) \/ r.end # "run" THEN r
  ELSE LET u0 == sipnode(ns[k], 0)
           v0 == sipnode(ns[k], 1)
           pu == Path(r.tab, u0)
           pv == Path(r.tab, v0)
           errs == {pu.err, pv.err}
       IN  IF u0 = 0 THEN RefFind(r, b, ns, k + 1)
           ELSE IF errs \cap {"drift", "hang"} # {} THEN [r EXCEPT !.end = "stuck"]
           ELSE IF errs # {"ok"} THEN [r EXCEPT !.end = "exit"]
           ELSE IF At(pu.us, Len(pu.us) - 1) = At(pv.us, Len(pv.us) - 1)
           THEN LET a == Aligned(pu.us, pv.us)
                    c == CycleSet(SubSeq(pu.us, 1, a.nu + 1), SubSeq(pv.us, 1, a.nv + 1))
                    rs == RescanFrom([sols |-> r.sols, n |-> 0, cycle |-> c, oob |-> FALSE],
                                     AllAlive(b, 0), 1, r.nsols)
                IN  IF a.nu + a.nv + 1 = PROOFSIZE /\ r.nsols < maxsols
                    THEN IF rs.oob \/ rs.n # PROOFSIZE THEN [r EXCEPT !.end = "stuck"]
                         ELSE RefFind([r EXCEPT !.sols = rs.sols, !.nsols = r.nsols + 1],
                                      b, ns, k + 1)
                    ELSE RefFind(r, b, ns, k + 1)
           ELSE LET g == Graft(r.tab, pu.us, pv.us)
                IN  IF g.hang THEN [r EXCEPT !.end = "stuck"]
                    ELSE RefFind([r EXCEPT !.tab = g.tab], b, ns, k + 1)
\* the run of one worker on the key: trimming, then the nonce loop
RefAlive == TrimRef(Nonces, [round |-> 1, uorv |-> 0, part |-> 0])
\* the word of shrinkingset::bits for nonces n .. n+w-1 when A is the alive set
RECURSIVE DeadWord(_, _, _)
DeadWord(A, n, w) ==
  IF w = 0 THEN 0
  ELSE (IF n \in A THEN 0 ELSE 1) + 2 * DeadWord(A, n + 1, w - 1)
RefBits == [i \in 0 .. (NWORDS - 1) |-> DeadWord(RefAlive, i * WORDBITS, WORDBITS)]
RefRun == RefFind([tab |-> CuckooZero, sols |-> [k \in 0 .. (maxsols * PROOFSIZE - 1) |-> 0],
                   nsols |-> 0, end |-> "run"], RefBits, AllAlive(RefBits, 0), 1)
\* the solutions of the run of one worker, as sets of nonces
RefSets == {{RefRun.sols[i * PROOFSIZE + j] : j \in 0 .. (PROOFSIZE - 1)} :
              i \in 0 .. (RefRun.nsols - 1)}
\* the solutions of this run, as sets of nonces
ReportedSets == {RowSet(i) : i \in {x \in Reported : x < maxsols}}

\* C3: determinism: a finished run of the CPU miner reports the set of solutions
\* that the run of one worker on the same key and parameters reports, for every
\* nthreads and every interleaving
C3_Determinism ==
  (Finished /\ variant = "cpu" /\ RefRun.end # "stuck") => ReportedSets = RefSets

\* C5: monotonic trimming: in every step, through all rounds, sides, partitions
\* and workers, a dead nonce stays dead, so the alive set only ever shrinks
C5_MonotonicTrimming ==
  [][\A n \in Nonces : ~AliveTest(bits, n) => ~AliveTest(bits', n)]_vars
\* in round 2, with two workers, a worker is about to kill a nonce in a word
\* that already holds a dead nonce
C5_Witness ==
  /\ variant = "cpu" /\ nthreads = 2
  /\ \E t \in Active : /\ tp[t].pc = "reset" /\ tp[t].round = 2
                         /\ bits[tp[t].n \div WORDBITS] # 0

\* the set(x) calls of one count phase: one per alive nonce of the partition
\* whose endpoint on side uorv is node x of the partition
Calls(uorv, part, x) ==
  Cardinality({n \in AliveSet(bits) : /\ BitAnd(_sipnode(n, uorv), PART_MASK) = part
                                      /\ Shr(_sipnode(n, uorv), PART_BITS) = x})
\* every worker has completed its set calls of the pass and waits at the barrier
CountPhaseDone == variant = "cpu" /\ \A t \in Active : tp[t].pc = "b2"
\* C6: once the k calls set(x) of all workers have completed, test(x) is true
\* iff k >= 2, for every node index x
C6_DegreeSaturation ==
  CountPhaseDone =>
    \A x \in 0 .. (ONCE_BITS - 1) :
      TwiceTest(nonleaf, x) <=> (Calls(tp[0].uorv, tp[0].part, x) >= 2)

\* number of zero bits of the alive bitmap
RECURSIVE PopAlive(_, _)
PopAlive(b, w) ==
  IF w = 0 THEN 0 ELSE PopAlive(b, w - 1) + popcount(AliveBlock(b, (w - 1) * WORDBITS))
\* no worker is inside kill_leaf_edges
NoKillInProgress == \A t \in Active : tp[t].pc \notin {"test", "reset"}
\* C10: whenever no kill phase is in progress, count() (the sum of the workers'
\* counters modulo 2^64) is the number of alive bits and is at most HALFSIZE
C10_CountIsPopcount ==
  (variant = "cpu" /\ NoKillInProgress) =>
     /\ AliveCount(cnt, nthreads) = PopAlive(bits, NWORDS)
     /\ AliveCount(cnt, nthreads) <= HALFSIZE
\* after a kill phase both workers wait at the barrier, worker 1 has killed
\* nonces (its counter wrapped below 0) and so has worker 0
C10_Witness ==
  /\ variant = "cpu" /\ nthreads = 2
  /\ \A t \in Active : tp[t].pc = "b3"
  /\ cnt[1] > HALFSIZE /\ cnt[0] < HALFSIZE

\* C7: in every table a sequential caller can build from the empty table with
\* fewer than CUCKOO_SIZE distinct nonzero keys, lookup(u) is the value of the
\* most recent set(u, .), and 0 for a key never set
C7_RoundTrip == \A u \in MapKeys : CuckooGet(cuckoo, u) = shadow[u]
\* CUCKOO_SIZE - 1 keys are set, keys 14 and 15 share the last home slot and one
\* of them was pushed around the end of the table, and key 2 was overwritten
C7_Witness ==
  /\ IDXSHIFT = 1
  /\ Cardinality(KeysSet) = CUCKOO_SIZE - 1
  /\ {14, 15} \subseteq KeysSet
  /\ \E ui \in 0 .. 1 : Shr(cuckoo[ui], SIZESHIFT) \in {14, 15}
  /\ shadow[2] = 10 /\ \E ui \in 0 .. CUCKOO_MASK : cuckoo[ui] = Niew(2, 10)
  /\ \A ui \in 0 .. CUCKOO_MASK : cuckoo[ui] # Niew(2, 5)

\* the load check of the run is over
Checked == status = "overloaded" \/ heap.cuckoo
\* 100 * count / CUCKOO_SIZE for the alive set left by the trimming rounds
FinalLoad == (100 * PopAlive(bits, NWORDS)) \div CUCKOO_SIZE
\* no CuckooMap set or lookup and no cycle search has been performed
NoSearch ==
  /\ ~heap.cuckoo /\ cuckoo = CuckooZero /\ nsols = 0
  /\ \A t \in Threads : tp[t].pc \in {"pass", "b1", "b2", "b3", "b4", "off"}
\* the verdict of the load check is the one the final load calls for
Verdict ==
  /\ (Checked /\ FinalLoad >= 90) => (status = "overloaded" /\ NoSearch)
  /\ (Checked /\ FinalLoad < 90) => heap.cuckoo
  /\ status = "overloaded" => (FinalLoad >= 90 /\ NoSearch)

\* C8 as stated: load >= 90 ends the run overloaded without any search, a run
\* with ntrims = 0 always ends overloaded, and below the threshold the search
\* is started
C8_Overload ==
  /\ variant \in {"cpu", "gpu"} => Verdict
  /\ (variant \in {"cpu", "gpu"} /\ ntrims = 0 /\ Checked) => status = "overloaded"
\* C8, amended: the verdict holds in every build that has the load check (the
\* CUDA miner built with SKIP_FINAL_LOAD has none and never ends overloaded), and
\* a run with ntrims = 0 ends overloaded iff IDXSHIFT >= 1 (load = 50 * 2^IDXSHIFT)
C8_OverloadAmended ==
  /\ (variant \in {"cpu", "gpu"} /\ ~SKIP_FINAL_LOAD) => Verdict
  /\ SKIP_FINAL_LOAD => status # "overloaded"
  /\ (variant \in {"cpu", "gpu"} /\ ~SKIP_FINAL_LOAD /\ ntrims = 0 /\ Checked) =>
       (status = "overloaded" <=> IDXSHIFT >= 1)
\* a run that ends overloaded after trimming rounds that killed nonces
C8_Witness ==
  /\ status = "overloaded" /\ ntrims > 0 /\ AliveSet(bits) # Nonces
  /\ FinalLoad >= 90

\* C9 as stated: overload ends the process with a nonzero exit status,
\* completed cycle finding with exit status 0
C9_ExitStatus ==
  /\ status = "overloaded" => exitcode # 0
  /\ Finished => exitcode = 0
\* C9, amended: overload (exit(0)) and completed cycle finding (return 0) both
\* end the process with exit status 0; a failed assert ends it with a nonzero one
C9_ExitStatusAmended ==
  /\ status = "overloaded" => exitcode = 0
  /\ Finished => exitcode = 0
  /\ status = "abort" => exitcode # 0
\* the CUDA miner has exited on overload
C9_Witness == variant = "gpu" /\ status = "overloaded" /\ host.pc = "load"

\* C4 as stated: no two solutions reported by the CPU miner hold the same set of
\* nonces
C4_NoDuplicateSolution ==
  variant = "cpu" =>
    \A i, j \in Reported : (i < maxsols /\ j < maxsols /\ i # j) => RowSet(i) # RowSet(j)

(* --------------------------- trimming passes -------------------------- *)
\* the pass (pass.uorv, pass.part) is over: every worker waits at the barrier
\* after kill_leaf_edges, respectively the kill kernel has returned
PassEnded ==
  \/ variant = "cpu" /\ \A t \in Active : tp[t].pc = "b3"
  \/ variant = "gpu" /\ pass.ended
\* the nonces of A in the block at `block` whose node on side uorv lies in
\* partition part, in ascending order, from offset k on
RECURSIVE PartNonces(_, _, _, _, _)
PartNonces(A, block, k, uorv, part) ==
  IF k >= WORDBITS THEN <<>>
  ELSE (IF block + k \in A /\ BitAnd(_sipnode(block + k, uorv), PART_MASK) = part
        THEN <<block + k>> ELSE <<>>) \o PartNonces(A, block, k + 1, uorv, part)
\* a worker about to reset resets the nonce whose node it tested
ResetsTested ==
  \A t \in Active :
    (variant = "cpu" /\ tp[t].pc = "reset") =>
      tp[t].n = PartNonces(pass.alive, tp[t].block, 0, tp[t].uorv, tp[t].part)[tp[t].i]

\* C11: when a pass ends, the alive set is the leaf-edge removal of the alive
\* set the pass started with, for every nthreads and interleaving, and every
\* reset is applied to the nonce whose node was tested
C11_PassRemovesLeaves ==
  /\ PassEnded => AliveSet(bits) = TrimPassRef(pass.alive, pass.uorv, pass.part)
  /\ ResetsTested

\* the nonces of A both of whose endpoints are shared with another nonce of A
Shared(A) ==
  {n \in A : /\ \E m \in A \ {n} : U(m) = U(n)
             /\ \E m \in A \ {n} : V(m) = V(n)}
\* the largest set C of nonces in which every endpoint of a nonce of C is
\* shared by at least two nonces of C (the union of all such sets)
RECURSIVE Core(_)
Core(A) == IF Shared(A) = A THEN A ELSE Core(Shared(A))

\* C12: trimming never removes an edge of a cycle: every set of nonces in which
\* each endpoint is shared by two nonces of the set stays alive through all
\* rounds, for every nthreads and interleaving
C12_CycleEdgesSurvive == Core(Nonces) \subseteq AliveSet(bits)

\* number of nonces of A with the same node on side uorv as n
SideDegree(A, n, uorv) == Cardinality({m \in A : _sipnode(m, uorv) = _sipnode(n, uorv)})
\* C13: a nonce that is alive when a pass ends and whose node on the side of the
\* pass lies in the partition of the pass had a node of degree >= 2 when the
\* pass started, counted over the nonces alive at that point; with C5 this
\* covers every past pass of every alive nonce
C13_AliveHadDegreeTwo ==
  PassEnded =>
    \A n \in AliveSet(bits) :
      BitAnd(_sipnode(n, pass.uorv), PART_MASK) = pass.part =>
        SideDegree(pass.alive, n, pass.uorv) >= 2
\* a pass of two racing workers has ended: a nonce was reset and a nonce of the
\* partition survived
C13_Witness ==
  /\ variant = "cpu" /\ nthreads = 2 /\ ~ATOMIC
  /\ \A t \in Active : tp[t].pc = "b3"
  /\ pass.resets # {}
  /\ \E n \in AliveSet(bits) : BitAnd(_sipnode(n, pass.uorv), PART_MASK) = pass.part

(* --------------------------- phase ordering --------------------------- *)
\* where a worker is inside a trimming pass
CountPhase(t) == tp[t].pc \in {"set", "set2"}
KillPhase(t) == tp[t].pc \in {"test", "reset"}
\* the reset of nonleaf for the pass with these loop variables has completed,
\* and no later one has started
ResetDoneFor(l) == pass.uorv = l.uorv /\ pass.part = l.part /\ ~pass.ended

\* C14: within a pass no worker sets a degree counter before nonleaf's reset of
\* that pass has completed, no worker tests a counter or resets an alive bit
\* before every worker has finished counting, and the reset of the next pass
\* does not start before every worker has finished killing
C14_PhaseOrdering ==
  /\ variant = "cpu" =>
       /\ \A t \in Active : CountPhase(t) =>
            /\ ResetDoneFor(tp[t])
            /\ \A s \in Active : CountPhase(s) \/ tp[s].pc = "b2"
       /\ \A t \in Active : KillPhase(t) =>
            /\ ResetDoneFor(tp[t])
            /\ \A s \in Active : KillPhase(s) \/ tp[s].pc = "b3"
       /\ (tp[0].pc = "pass" /\ tp[0].round <= ntrims) =>
            \A s \in Active \ {0} : tp[s].pc \in {"b1", "b4"}
  /\ variant = "gpu" =>
       /\ host.pc = "kill" => ResetDoneFor(host)
       /\ host.pc = "count" => (pass = NoPass \/ pass.ended)
\* in the second round one worker still kills on side V while the other waits
\* at the barrier behind the kill phase
C14_Witness ==
  /\ variant = "cpu" /\ nthreads = 2
  /\ tp[0].pc = "reset" /\ tp[0].round = 2 /\ tp[0].uorv = 1
  /\ tp[1].pc = "b3"

(* --------------------------- buffer lifecycle ------------------------- *)
\* a worker or kernel thread that looks up or sets entries of the cuckoo_hash
InFind(t) == tp[t].pc \in {"iter", "act", "sol", "sol2", "rescan"}
\* main() of the CUDA miner is inside the trimming loops
HostTrims == variant = "gpu" /\ host.pc \in {"count", "kill"}

\* C15: nonleaf is allocated whenever a worker or kernel counts or kills, the
\* cuckoo_hash is allocated (and nonleaf released) whenever a worker looks up or
\* sets an entry, it is all zero when it is installed and stays so until the
\* workers pass the barrier behind the installation, and nonleaf is released
\* only when no worker counts or kills
C15_BufferLifecycle ==
  /\ [](/\ \A t \in Threads : (CountPhase(t) \/ KillPhase(t)) => heap.nonleaf
        /\ (HostTrims \/ (variant = "cpu" /\ tp[0].pc = "pass" /\ tp[0].round <= ntrims))
             => heap.nonleaf
        /\ \A t \in Threads : InFind(t) => heap.cuckoo /\ ~heap.nonleaf
        /\ (\E t \in Active : tp[t].pc = "b4") => cuckoo = CuckooZero)
  /\ [][/\ (heap.nonleaf /\ ~heap'.nonleaf) =>
             /\ \A t \in Threads : ~CountPhase(t) /\ ~KillPhase(t)
             /\ ~HostTrims
        /\ (~heap.cuckoo /\ heap'.cuckoo) =>
             /\ cuckoo' = CuckooZero
             /\ \A t \in Threads : ~InFind(t)
        /\ (heap.cuckoo => heap'.cuckoo) /\ (~heap.nonleaf => ~heap'.nonleaf)]_vars
\* after real trimming two workers are in cycle finding and the map already
\* holds an edge
C15_Witness ==
  /\ variant = "cpu" /\ nthreads = 2 /\ ntrims >= 1
  /\ \A t \in Active : InFind(t)
  /\ cuckoo # CuckooZero /\ heap = Installed

(* ------------------------- alive-set updates -------------------------- *)
\* the word of alive->bits that holds nonce n
WordOf(n) == n \div WORDBITS

\* C16: no update of the alive set is lost: two workers in the kill phase never
\* work on the same word of alive->bits, and when the phase has ended exactly
\* the nonces alive->reset was called for have died
C16_NoLostReset ==
  /\ variant = "cpu" =>
       \A t, s \in Active : (t # s /\ KillPhase(t) /\ KillPhase(s)) =>
           /\ WordOf(tp[t].block) # WordOf(tp[s].block)
           /\ (tp[t].pc = "reset" /\ tp[s].pc = "reset") => WordOf(tp[t].n) # WordOf(tp[s].n)
  /\ PassEnded => AliveSet(bits) = pass.alive \ pass.resets
\* a kill phase of two workers has ended in which both called alive->reset
C16_Witness ==
  /\ variant = "cpu" /\ nthreads = 2
  /\ \A t \in Active : tp[t].pc = "b3"
  /\ \E n, m \in pass.resets : WordOf(n) % 2 = 0 /\ WordOf(m) % 2 = 1

(* -------------------------- block partitioning ------------------------ *)
\* the blocks one worker's loop visits from `block` on
RECURSIVE BlocksFrom(_)
BlocksFrom(block) ==
  IF block >= HALFSIZE THEN {} ELSE {block} \cup BlocksFrom(NextBlock(block))
\* the workers that run the sweeps: the nthreads pthreads, or the device
\* threads of the launch find_cycles<<<nthreads / tpb, tpb>>>
Workers == IF variant = "cpu" THEN Active ELSE GThreads
\* the workers whose loop visits `block`
Handlers(block) == {w \in Workers : block \in BlocksFrom(FirstBlock(w))}

\* C17: in every sweep each block of [0, HALFSIZE) is visited by exactly one of
\* the workers that run, the trimming kernels have one thread per word, and a
\* worker only ever holds a block of its own share
C17_BlockPartition ==
  /\ (variant = "cpu" \/ host.pc = "find") =>
       \A k \in 0 .. (NWORDS - 1) : Cardinality(Handlers(k * WORDBITS)) = 1
  /\ variant = "gpu" => Launched(HALFSIZE \div WORD32) = HALFSIZE \div WORD32
  /\ \A t \in Workers :
       (CountPhase(t) \/ KillPhase(t) \/ tp[t].pc \in {"iter", "act"}) =>
          tp[t].block \in BlocksFrom(FirstBlock(t))

(* ------------------------- the nonce loop ----------------------------- *)
\* the bits of the block's alive word above nonce: what alive64 holds once the
\* nonces up to `nonce` are shifted out
Remaining(b, block, nonce) == Shr(AliveBlock(b, block), nonce + 1 - block)

\* C18: the nonce loop of cycle finding visits the alive nonces of its block one
\* by one: at the loop head alive64 holds exactly the alive nonces not yet
\* visited and at least one, a decoded nonce is an alive nonce of the block in
\* [0, HALFSIZE), and no worker runs on past the end of the block (while the
\* process runs)
C18_NonceLoop ==
  Running => \A t \in Workers :
    /\ tp[t].pc # "runaway"
    /\ tp[t].pc = "iter" =>
         /\ tp[t].alive64 # 0
         /\ tp[t].alive64 = Remaining(bits, tp[t].block, tp[t].nonce)
    /\ tp[t].pc = "act" =>
         /\ tp[t].nonce \in Nonces
         /\ tp[t].block <= tp[t].nonce /\ tp[t].nonce < tp[t].block + WORDBITS
         /\ AliveTest(bits, tp[t].nonce)

(* ------------------------- single-worker search ----------------------- *)
\* one worker or device thread runs cycle finding
SingleWorker == Workers = {0}
\* the nodes one edge of F away from S, and S
Adj(F, S) == S \cup {e[2] : e \in {f \in F : f[1] \in S}}
               \cup {e[1] : e \in {f \in F : f[2] \in S}}
\* the nodes connected to S by edges of F
RECURSIVE Reach(_, _)
Reach(F, S) == IF Adj(F, S) = S THEN S ELSE Reach(F, Adj(F, S))
Connected(F, u, v) == v \in Reach(F, {u})
\* number of edges of the shortest walk in F from S to v (v connected to S)
RECURSIVE Dist(_, _, _, _)
Dist(F, S, v, d) == IF v \in S THEN d ELSE Dist(F, Adj(F, S), v, d + 1)

\* C19: with a single worker, the two paths of an edge (u0, v0) end in the same
\* root iff u0 and v0 are connected by the edges inserted so far, and then
\* nu + nv + 1 after the alignment is the number of edges of the cycle that
\* (u0, v0) closes: the edges between u0 and v0, plus one
C19_PathsMeetIffConnected ==
  (Running /\ SingleWorker /\ tp[0].pc = "act") =>
    LET us == tp[0].us
        vs == tp[0].vs
        meet == At(us, Len(us) - 1) = At(vs, Len(vs) - 1)
        a == Aligned(us, vs)
    IN  /\ meet <=> Connected(forest, At(us, 0), At(vs, 0))
        /\ meet => a.nu + a.nv + 1 = Dist(forest, {At(us, 0)}, At(vs, 0), 0) + 1
\* the paths of the edge the single worker holds merge below their root and
\* the edge closes a 4-cycle
C19_Witness ==
  /\ Running /\ variant = "cpu" /\ SingleWorker /\ tp[0].pc = "act"
  /\ At(tp[0].us, Len(tp[0].us) - 1) = At(tp[0].vs, Len(tp[0].vs) - 1)
  /\ Aligned(tp[0].us, tp[0].vs) # AlignedNone(tp[0].us, tp[0].vs)
  /\ Aligned(tp[0].us, tp[0].vs).nu + Aligned(tp[0].us, tp[0].vs).nv + 1 = 4
  /\ Cardinality(forest) >= 3

(* ------------------------------ the graft ----------------------------- *)
\* the node a chain of lookups from x ends in, HANG or DRIFT if it does not end
RootOf(tab, x) ==
  LET p == Path(tab, x)
  IN  IF p.err = "ok" THEN At(p.us, Len(p.us) - 1) ELSE HANG
\* tab maps every node of the path to its successor and the last node to nil
Forward(tab, ps) ==
  /\ \A k \in 0 .. (Len(ps) - 2) : CuckooGet(tab, At(ps, k)) = At(ps, k + 1)
  /\ CuckooGet(tab, At(ps, Len(ps) - 1)) = 0
\* tab maps every node of the path but the first to its predecessor, and the
\* first node to `to`
Reversed(tab, ps, to) ==
  /\ \A k \in 0 .. (Len(ps) - 2) : CuckooGet(tab, At(ps, k + 1)) = At(ps, k)
  /\ CuckooGet(tab, At(ps, 0)) = to
\* the single worker grafts the edge it holds and the sets all return
GraftStep ==
  /\ Running /\ SingleWorker /\ tp[0].pc = "act"
  /\ At(tp[0].us, Len(tp[0].us) - 1) # At(tp[0].vs, Len(tp[0].vs) - 1)
  /\ tp'[0].pc # "hang"

\* C20: the graft of a single worker reverses the u-path iff nu < nv (the
\* v-path when nu >= nv) and links its head to the head of the other path,
\* which stays as it was; afterwards the lookups from every node of both
\* paths end in the former root of the path that was not reversed
C20_Body ==
  GraftStep =>
       LET us == tp[0].us
           vs == tp[0].vs
           rev == IF Len(us) < Len(vs) THEN us ELSE vs
           keep == IF Len(us) < Len(vs) THEN vs ELSE us
           root == At(keep, Len(keep) - 1)
       IN  /\ Reversed(cuckoo', rev, At(keep, 0))
           /\ Forward(cuckoo', keep)
           /\ \A k \in 1 .. Len(us) : RootOf(cuckoo', us[k]) = root
           /\ \A k \in 1 .. Len(vs) : RootOf(cuckoo', vs[k]) = root
C20_Graft == [][C20_Body]_vars
\* the single worker is about to graft an edge whose u-path is the shorter
\* one and has more nodes than its head, so that a real reversal follows
C20_Witness ==
  /\ Running /\ variant = "cpu" /\ SingleWorker /\ tp[0].pc = "act"
  /\ At(tp[0].us, Len(tp[0].us) - 1) # At(tp[0].vs, Len(tp[0].vs) - 1)
  /\ Len(tp[0].us) >= 2 /\ Len(tp[0].us) < Len(tp[0].vs)
  /\ ~Graft(cuckoo, tp[0].us, tp[0].vs).hang

(* --------------------------- the forest ------------------------------- *)
\* the pointers held by the table: <<key, value>> of every occupied slot
Ptrs(tab) ==
  {<<Shr(tab[i], SIZESHIFT), BitAnd(tab[i], SIZE - 1)>> : i \in {j \in DOMAIN tab : tab[j] # 0}}
\* the nodes that pointers of F lead to from the nodes of S, and S
RECURSIVE Leads(_, _)
Leads(F, S) ==
  LET T == S \cup {e[2] : e \in {f \in F : f[1] \in S}}
  IN  IF T = S THEN S ELSE Leads(F, T)
\* no stored key is reached again by following pointers from its value
Acyclic(F) == \A e \in F : e[1] \notin Leads(F, {e[2]})

\* C21: while a single CPU worker finds cycles, after every processed edge
\* the pointers of the table form a forest: no key leads back to itself, so
\* from every node the lookups of path() end at 0 within MAXPATHLEN steps and
\* path() never finds a node of its own path again.
C21_Forest ==
  (OnCpu /\ SingleWorker /\ heap.cuckoo) =>
    /\ Acyclic(Ptrs(cuckoo))
    /\ \A x \in 0 .. (SIZE - 1) : Path(cuckoo, x).err \notin {"illegal", "maxpath"}
\* a chain of two pointers has been built by grafts
C21_Witness ==
  /\ OnCpu /\ SingleWorker /\ heap.cuckoo
  /\ Cardinality(forest) >= 3
  /\ \E x \in 1 .. (SIZE - 1) : Len(Path(cuckoo, x).us) >= 3 /\ Path(cuckoo, x).err = "ok"

(* --------------------------- path overflow ---------------------------- *)
\* the nonce that worker t decodes in its next iteration of the nonce loop
NextNonce(t) == tp[t].nonce + ffsll(tp[t].alive64)
\* worker t is about to run an iteration in which path() returns through its
\* `++nu >= MAXPATHLEN` branch for u0 or for v0
Overflowing(t) ==
  /\ Running /\ tp[t].pc = "iter" /\ NextNonce(t) \in DOMAIN sip
  /\ sipnode(NextNonce(t), 0) # 0
  /\ LET errs == {Path(cuckoo, sipnode(NextNonce(t), uorv)).err : uorv \in {0, 1}}
     IN  errs \subseteq {"ok", "maxpath", "illegal"} /\ errs # {"ok"}

\* C22: an iteration in which path() overflows MAXPATHLEN leaves the table as
\* it was; in the CUDA miner the thread stays in its nonce loop, past the
\* nonce of that edge, and the run goes on (the return value of path() is not
\* used as an index); in the CPU miner the worker exits.  No path array ever
\* holds more than MAXPATHLEN nodes.
C22_PathOverflow ==
  [][\A t \in Workers :
       /\ (Overflowing(t) /\ tp'[t] # tp[t]) =>
            /\ cuckoo' = cuckoo
            /\ IF variant = "gpu"
               THEN /\ status' = "run"
                    /\ tp'[t] = Continue([tp[t] EXCEPT
                                   !.ffs = ffsll(tp[t].alive64), !.nonce = NextNonce(t),
                                   !.alive64 = ShrClamp(tp[t].alive64, ffsll(tp[t].alive64),
                                                        WORDBITS)], bits)
               ELSE tp'[t].pc = "exit"
       /\ Len(tp'[t].us) <= MAXPATHLEN /\ Len(tp'[t].vs) <= MAXPATHLEN]_vars

(* ------------------------ entries of the table ------------------------ *)
\* the single worker is inside the nonce loop of cycle finding or has left it
Finding == OnCpu /\ SingleWorker /\ heap.cuckoo /\ (InFind(0) \/ tp[0].pc = "exit")
\* the nonces whose iteration of the nonce loop is over (all of them once the
\* block loop has ended)
Processed ==
  IF tp[0].pc = "exit" /\ tp[0].ffs = 0 THEN Nonces
  ELSE {n \in Nonces : n < tp[0].nonce \/ (n = tp[0].nonce /\ tp[0].pc = "iter")}
\* the alive, processed nonces whose endpoints are a and b
NoncesOf(a, b) ==
  {n \in AliveSet(bits) \cap Processed : {sipnode(n, 0), sipnode(n, 1)} = {a, b}}
\* the entries of the table that join a and b, in either direction
EntriesOf(tab, a, b) == {e \in Ptrs(tab) : {e[1], e[2]} = {a, b}}

\* C25: while the single CPU worker finds cycles, every entry key -> value of
\* the table is the endpoint pair, in one of the two directions, of an alive
\* nonce that was already processed, and distinct entries come from distinct
\* nonces: no pair of nodes has more entries than such nonces.
C25_EntriesAreEdges ==
  Finding =>
    \A e \in Ptrs(cuckoo) :
      /\ NoncesOf(e[1], e[2]) # {}
      /\ Cardinality(EntriesOf(cuckoo, e[1], e[2])) <= Cardinality(NoncesOf(e[1], e[2]))

(* ------------------------- solution recovery -------------------------- *)
\* worker t is in the rescan loop of solution()
Rescanning(t) == variant = "cpu" /\ t \in Active /\ tp[t].pc = "rescan"

\* C27: while solution() rescans the alive set, the number n of nonces it has
\* written into its row never exceeds PROOFSIZE, and it never reaches a hit
\* with n = PROOFSIZE already written (the write at index PROOFSIZE of the
\* row), whatever the alive set and for PROOFSIZE 2 as well as 4.
C27_RescanBound ==
  \A t \in Threads :
    Rescanning(t) =>
      /\ tp[t].n <= PROOFSIZE
      /\ \A k \in 1 .. Len(ScanBlock(bits, tp[t].sblock)) :
           LET ns == ScanBlock(bits, tp[t].sblock)
               r == RescanFrom([sols |-> sols, n |-> tp[t].n, cycle |-> tp[t].cycle,
                                oob |-> FALSE], SubSeq(ns, 1, k), 1, tp[t].soli)
           IN  r.n <= PROOFSIZE /\ ~(r.oob /\ r.n >= PROOFSIZE)

\* C28: every row of sols that is written or read lies below the capacity:
\* the row soli that solution() fills in the CPU miner, and the rows
\* 0 .. nsols - 1 that find_nonces and the print loop of the CUDA miner
\* go through, for every number of workers and of cycles found.
C28_SolutionStorage ==
  /\ \A t \in Threads : Rescanning(t) => tp[t].soli < maxsols
  /\ (variant = "gpu" /\ host.pc \in {"find", "nonces", "end"}
        /\ \A t \in GThreads : tp[t].pc = "exit") => nsols <= maxsols

(* --------------------------- probe distance --------------------------- *)
\* the number of slots between the home slot of the key held in slot i and i
Drift(tab, i) ==
  BitAnd(i - Shr(Shr(tab[i], SIZESHIFT), IDXSHIFT) + CUCKOO_SIZE, CUCKOO_MASK)

BothReturned == variant \in SetVariants /\ \A t \in Setters : tp[t].pc = "ret"
\* the slot that holds key u (CUCKOO_SIZE if none does)
SlotOf(tab, u) ==
  IF \E i \in DOMAIN tab : tab[i] # 0 /\ Shr(tab[i], SIZESHIFT) = BitAnd(u, KEYMASK)
  THEN CHOOSE i \in DOMAIN tab : tab[i] # 0 /\ Shr(tab[i], SIZESHIFT) = BitAnd(u, KEYMASK)
  ELSE CUCKOO_SIZE

\* C26: once two workers that set distinct keys have both returned, both keys
\* are stored, in distinct slots, each with the value it was set to, and the
\* lookups find them, whichever of the set functions is used and however the
\* steps of the two calls interleave.
C26_NoLostInsertion ==
  BothReturned =>
    /\ \A t \in Setters : /\ SlotOf(cuckoo, tp[t].u) < CUCKOO_SIZE
                          /\ CuckooGet(cuckoo, tp[t].u) = tp[t].v
    /\ SlotOf(cuckoo, tp[0].u) # SlotOf(cuckoo, tp[1].u)

(* ------------------------- the two node spaces ------------------------ *)
\* consecutive nodes of the path p differ in parity
Alternates(p) == \A k \in 1 .. (Len(p) - 1) : p[k] % 2 # p[k + 1] % 2

\* C23: in the cycle finder of every variant, once both path() calls of an
\* iteration have returned, u0 is even and v0 is odd (so the edge is no
\* self-loop) and both paths alternate between even and odd node ids.
C23_DisjointNodeSpaces ==
  \A t \in Threads :
    tp[t].pc = "act" =>
      /\ At(tp[t].us, 0) % 2 = 0 /\ At(tp[t].vs, 0) % 2 = 1
      /\ At(tp[t].us, 0) # At(tp[t].vs, 0)
      /\ Alternates(tp[t].us) /\ Alternates(tp[t].vs)

(* ----------------------------- the sentinel --------------------------- *)
\* C24: in the cycle finder of every variant node 0 is never stored: no
\* occupied slot of the table has key 0 or value 0, so no set(u, v) was called
\* with u = 0 or v = 0.
C24_Sentinel ==
  heap.cuckoo => \A e \in Ptrs(cuckoo) : e[1] # 0 /\ e[2] # 0

(* ------------------------ the partition filter ------------------------ *)
\* the nodes u for which the threads of count_node_deg of cuda_miner.cu call
\* nonleaf.set; the argument of the call is u itself
CountCalls(b, uorv) ==
  {dipnode(n, uorv) : n \in {m \in AliveSet(b) : \E id \in CThreads : Mine(id, m)}}

\* C29: in a count pass every call of set on the degree set is for a node of
\* the partition of the pass, (u & PART_MASK) == part, with an index below
\* ONCE_BITS, so that no access falls outside the TWICE_WORDS words.
C29_PartitionFilter ==
  /\ (OnCuda /\ host.pc = "count") =>
        \A u \in CountCalls(bits, host.uorv) :
          BitAnd(u, PART_MASK) = host.part /\ u < ONCE_BITS
  /\ (variant = "cuda" => status # "fault")

(* ------------------------ trimming terminates ------------------------- *)
\* worker t has left the last barrier and is in (or past) its nonce loop
PastTrimming(t) == tp[t].pc \in {"iter", "act", "sol", "sol2", "rescan", "exit"}
\* the workers waiting at the barrier wait at the same call of the same pass
SameWait ==
  \A s, t \in Active :
    (AtBarrier(s) /\ AtBarrier(t)) =>
      /\ tp[s].pc = tp[t].pc
      /\ tp[s].round = tp[t].round /\ tp[s].uorv = tp[t].uorv /\ tp[s].part = tp[t].part

\* C31: the workers go through the same sequence of barrier waits, so that
\* the workers that wait together wait at the same barrier call, and under
\* fair scheduling the run ends overloaded or every worker gets past all
\* ntrims rounds and the last barrier into cycle finding.
C31_TrimmingCompletes ==
  /\ [](variant = "cpu" => SameWait)
  /\ <>(status = "overloaded" \/ \A t \in Active : PastTrimming(t))
\* two workers were released from the last barrier after at least one round
C31_Witness ==
  /\ variant = "cpu" /\ nthreads >= 2 /\ ntrims >= 1 /\ status = "run"
  /\ \A t \in Active : PastTrimming(t)

(* -------------------------- table occupancy --------------------------- *)
\* the alive nonces whose iteration of the nonce loop is over
ProcessedAlive == AliveSet(bits) \cap Processed
\* the number of occupied slots of the table
Occupied(tab) == Cardinality({i \in DOMAIN tab : tab[i] # 0})

\* C32: while the single CPU worker finds cycles, every grafted edge has added
\* exactly one key and no other edge has added any, the number of occupied
\* slots is at most the number of alive nonces processed so far, and, the
\* load check having passed, the table keeps an empty slot and no probe loop
\* of set or of the lookup runs forever.
C32_Occupancy ==
  /\ Finding =>
        /\ Occupied(cuckoo) = Cardinality(forest)
        /\ Occupied(cuckoo) <= Cardinality(ProcessedAlive)
  /\ (variant = "cpu" /\ SingleWorker /\ heap.cuckoo) =>
        /\ Occupied(cuckoo) < CUCKOO_SIZE
        /\ tp[0].pc # "hang"
\* grafts of alive nonces have filled the table up to its last empty slot, as
\* many as the alive nonces processed
C32_Witness ==
  /\ Finding
  /\ Occupied(cuckoo) = CUCKOO_SIZE - 1
  /\ Occupied(cuckoo) = Cardinality(ProcessedAlive)
  /\ \A e \in forest : NoncesOf(e[1], e[2]) # {}

(* -------------------- the frame of twice_set::set --------------------- *)
\* the 2-bit counter of node x in the words tw
Counter(tw, x) == BitAnd(Shr(tw[TwiceIdx(x)], 2 * (x % TWICE_PER_WORD)), 3)
\* the nodes that have a counter
Counted == 0 .. (ONCE_BITS - 1)
\* from tw to tw2 only the counter of u may differ, and it is not 10
OnlyCounter(tw, tw2, u) ==
  /\ \A x \in Counted \ {u} : Counter(tw2, x) = Counter(tw, x)
  /\ Counter(tw2, u) # 2
\* this step is an access of worker t inside twice_set::set
SetStep(t) ==
  variant = "cpu" /\ t \in Active /\ tp[t].pc \in {"set", "set2"} /\ tp'[t] # tp[t]

\* C33: every access that a call set(u) of the degree set makes to the words
\* leaves the counters of all nodes other than u as they were, also those in
\* the word of u, with and without ATOMIC, and never leaves the counter of u
\* at 10 (high bit without low bit).
C33_SetFrame ==
  [][\A t \in Threads : SetStep(t) => OnlyCounter(nonleaf, nonleaf', tp[t].buf[tp[t].i])]_vars

====
